---- MODULE Spec2Model ----
(***************************************************************************)
(* Model of the Cypress TTSP touchscreen core driver (cyttsp_core.c): the  *)
(* retrying transport, the mode controller (cyttsp_power_on and its        *)
(* steps), the threaded interrupt handler with its touch-frame decoder and *)
(* slot reporting, and suspend/resume.                                     *)
(*                                                                         *)
(* Two threads are modelled: the caller of open/close/suspend/resume       *)
(* ("main", program counter mpc) and the threaded interrupt handler        *)
(* ("irq", program counter ipc).  The driver takes no lock, so the two     *)
(* interleave at every access of ts->power_state and ts->bl_ready; bus     *)
(* transfers and poll loops touch neither and are taken in one step.       *)
(***************************************************************************)
EXTENDS Integers, Sequences, FiniteSets, TLC

(***************************************************************************)
(* Program constants                                                       *)
(***************************************************************************)
CY_NUM_RETRY == 4
CY_NUM_BL_KEYS == 8
CY_MAX_FINGER == 4
CY_MAX_ID == 16
CY_DELAY_DFLT == 20
CY_DELAY_MAX == 500 \div CY_DELAY_DFLT
CY_ACT_DIST_DFLT == 248
CY_HNDSHK_BIT == 128
CY_OPERATE_MODE == 0
CY_SYSINFO_MODE == 16
CY_SOFT_RESET_MODE == 1
CY_DEEP_SLEEP_MODE == 2
CY_LOW_POWER_MODE == 4
CY_REG_BASE == 0
CY_REG_ACT_INTRVL == 29
CY_REG_ACT_DIST == 30
CY_ACT_INTRVL_DFLT == 0
CY_TCH_TMOUT_DFLT == 255
CY_LP_INTRVL_DFLT == 10

\* errno values, returned negated
EIO == 5
EAGAIN == 11
ENODEV == 19
EINVAL == 22
EBUSY == 16
ENOSYS == 38

\* enum cyttsp_powerstate
CY_IDLE_STATE == "IDLE"
CY_ACTIVE_STATE == "ACTIVE"
CY_LOW_PWR_STATE == "LOW_PWR"
\* variant: the sleep state recorded under the low-power name
CY_SLEEP_STATE_as_low_power == "LOW_PWR"
CY_SLEEP_STATE == "SLEEP"
CY_BL_STATE == "BOOTLOADER"
CY_INVALID_STATE == "INVALID"

\* sizes of the register maps read in one block
SIZEOF_XYDATA == 32
SIZEOF_BL_DATA == 16
SIZEOF_SYSINFO == 32

(***************************************************************************)
(* Bounds of the model                                                     *)
(***************************************************************************)
\* bus results handed to one transport call in the transport specification
MaxBusCalls == 5
\* pending complete() calls counted on ts->bl_ready
MaxDone == 1

(***************************************************************************)
(* Helper macros (cyttsp_core.c:45-51) on 8-bit values                     *)
(***************************************************************************)
GET_NUM_TOUCHES(x) == x % 16
IS_LARGE_AREA(x) == (x \div 16) % 2
IS_BAD_PKT(x) == ((x \div 32) % 2) * 32
IS_VALID_APP(x) == x % 2
IS_OPERATIONAL_ERR(x) == x % 64
GET_HSTMODE_low_nibble(reg) == reg % 16
GET_HSTMODE(reg) == (reg \div 16) % 8
GET_BOOTLOADERMODE_wrong_bit(reg) == (reg \div 32) % 2
GET_BOOTLOADERMODE(reg) == (reg \div 16) % 2

Byte == 0..255

(***************************************************************************)
(* Retrying transport.  rs is the sequence of results the bus adapter      *)
(* returns to the successive calls (0, or a negative errno); bufok is      *)
(* "buf is not NULL".  The result records the value returned, the number   *)
(* of bus calls made and the number of msleep(CY_DELAY_DFLT) calls.        *)
(***************************************************************************)
RECURSIVE ttsp_read_loop(_, _, _, _, _)
\* ttsp_read_loop sleeping after every bus call, also a successful one
ttsp_read_loop_always_sleeps(rs, tries, retval, calls, delays) ==
    IF tries < CY_NUM_RETRY /\ retval < 0
    THEN LET r == rs[calls + 1]
         IN  ttsp_read_loop(rs, tries + 1, r, calls + 1, delays + 1)
    ELSE [retval |-> retval, calls |-> calls, delays |-> delays]

ttsp_read_loop(rs, tries, retval, calls, delays) ==
    IF tries < CY_NUM_RETRY /\ retval < 0
    THEN LET r == rs[calls + 1]
         IN  ttsp_read_loop(rs, tries + 1, r, calls + 1,
                            IF r # 0 THEN delays + 1 ELSE delays)
    ELSE [retval |-> retval, calls |-> calls, delays |-> delays]

\* ttsp_read_block_data rejecting only a call that is both NULL and empty
ttsp_read_block_data_and_check(bufok, length, rs) ==
    IF ~bufok /\ length = 0
    THEN [retval |-> -EINVAL, calls |-> 0, delays |-> 0]
    ELSE ttsp_read_loop(rs, 0, -1, 0, 0)

ttsp_read_block_data(bufok, length, rs) ==
    IF ~bufok \/ length = 0
    THEN [retval |-> -EINVAL, calls |-> 0, delays |-> 0]
    ELSE ttsp_read_loop(rs, 0, -1, 0, 0)

RECURSIVE ttsp_write_loop(_, _, _, _, _)
\* ttsp_write_loop with "tries <= CY_NUM_RETRY"
ttsp_write_loop_one_more(rs, tries, retval, calls, delays) ==
    IF tries <= CY_NUM_RETRY /\ retval < 0
    THEN LET r == rs[calls + 1]
         IN  ttsp_write_loop(rs, tries + 1, r, calls + 1,
                             IF r # 0 THEN delays + 1 ELSE delays)
    ELSE [retval |-> retval, calls |-> calls, delays |-> delays]

ttsp_write_loop(rs, tries, retval, calls, delays) ==
    IF tries < CY_NUM_RETRY /\ retval < 0
    THEN LET r == rs[calls + 1]
         IN  ttsp_write_loop(rs, tries + 1, r, calls + 1,
                             IF r # 0 THEN delays + 1 ELSE delays)
    ELSE [retval |-> retval, calls |-> calls, delays |-> delays]

ttsp_write_block_data(bufok, length, rs) ==
    IF ~bufok \/ length = 0
    THEN [retval |-> -EINVAL, calls |-> 0, delays |-> 0]
    ELSE ttsp_write_loop(rs, 0, -1, 0, 0)

(***************************************************************************)
(* Bus adapter (cyttsp_spi.c): one transfer returns 0, or -EIO when the    *)
(* sync bytes were not acknowledged.  BusRun(k) fails k times and then     *)
(* succeeds for good.                                                      *)
(***************************************************************************)
BusResults == {0, -EIO}
BusRun(k) == [i \in 1..MaxBusCalls |-> IF i <= k THEN -EIO ELSE 0]
BusRuns == {BusRun(k) : k \in 0..CY_NUM_RETRY}

(***************************************************************************)
(* Bootloader status check.  cyttsp_load_bl_regs clears bl_data, presets   *)
(* bl_status to 0x10 and reads the 16-byte block; readret is the result of *)
(* that transport read, bl_file and bl_status the first two bytes read.    *)
(***************************************************************************)
\* cyttsp_bl_app_valid testing the host mode of bl_status instead of bl_file
cyttsp_bl_app_valid_wrong_byte(readret, bl_file, bl_status) ==
    IF readret < 0 THEN -ENODEV
    ELSE IF GET_BOOTLOADERMODE(bl_status) # 0
         THEN (IF IS_VALID_APP(bl_status) # 0 THEN 0 ELSE -ENODEV)
         ELSE IF GET_HSTMODE(bl_status) = CY_OPERATE_MODE
              THEN (IF IS_OPERATIONAL_ERR(bl_status) = 0 THEN 1 ELSE -ENODEV)
              ELSE -ENODEV

\* cyttsp_bl_app_valid sending a running application through exit-bootloader
cyttsp_bl_app_valid_never_skips(readret, bl_file, bl_status) ==
    IF readret < 0 THEN -ENODEV
    ELSE IF GET_BOOTLOADERMODE(bl_status) # 0
         THEN (IF IS_VALID_APP(bl_status) # 0 THEN 0 ELSE -ENODEV)
         ELSE IF GET_HSTMODE(bl_file) = CY_OPERATE_MODE
              THEN (IF IS_OPERATIONAL_ERR(bl_status) = 0 THEN 0 ELSE -ENODEV)
              ELSE -ENODEV

cyttsp_bl_app_valid(readret, bl_file, bl_status) ==
    IF readret < 0 THEN -ENODEV
    ELSE IF GET_BOOTLOADERMODE(bl_status) # 0
         THEN (IF IS_VALID_APP(bl_status) # 0 THEN 0 ELSE -ENODEV)
         ELSE IF GET_HSTMODE(bl_file) = CY_OPERATE_MODE
              THEN (IF IS_OPERATIONAL_ERR(bl_status) = 0 THEN 1 ELSE -ENODEV)
              ELSE -ENODEV

(***************************************************************************)
(* Poll loops.  ps is the sequence of poll outcomes: ret is the result of  *)
(* the transport read of one poll and cond tells whether the data read     *)
(* shows the awaited condition.  The loop is                               *)
(*   do { ... } while ((retval || !cond) && (tries++ < CY_DELAY_MAX));     *)
(***************************************************************************)
RECURSIVE poll_loop(_, _, _)
poll_loop(ps, tries, polls) ==
    LET p == ps[polls + 1]
        again == (p.ret # 0 \/ ~p.cond)
    IN  IF again /\ tries < CY_DELAY_MAX
        THEN poll_loop(ps, tries + 1, polls + 1)
        ELSE [tries |-> IF again THEN tries + 1 ELSE tries,
              retval |-> p.ret, polls |-> polls + 1]

\* the value the three mode functions return after their poll loop
poll_result(ps, timeout_err) ==
    LET r == poll_loop(ps, 0, 0)
    IN  IF r.tries >= CY_DELAY_MAX THEN -timeout_err ELSE r.retval

\* the device shows the awaited condition from poll n+1 on (never, when
\* n > CY_DELAY_MAX); before that a poll fails on the bus (busfail) or
\* reads data that does not show it yet
PollRun(n, busfail) ==
    [i \in 1..(CY_DELAY_MAX + 1) |->
        IF i <= n
        THEN [ret |-> IF busfail THEN -EIO ELSE 0, cond |-> FALSE]
        ELSE [ret |-> 0, cond |-> TRUE]]
PollCounts == {0, 1, CY_DELAY_MAX - 1, CY_DELAY_MAX, CY_DELAY_MAX + 1}
PollRuns == {PollRun(n, b) : n \in PollCounts, b \in BOOLEAN}

(***************************************************************************)
(* Exit-bootloader command (bl_command, cyttsp_core.c:155-160).  keys is   *)
(* platform_data->bl_keys: <<>> for NULL, else the 8 caller keys.          *)
(***************************************************************************)
bl_command == <<0, 255, 165, 0, 1, 2, 3, 4, 5, 6, 7>>
exit_bl_cmd(keys) ==
    IF keys = <<>> THEN bl_command
    ELSE [i \in 1..Len(bl_command) |->
            IF i <= Len(bl_command) - CY_NUM_BL_KEYS
            THEN bl_command[i]
            ELSE keys[i - (Len(bl_command) - CY_NUM_BL_KEYS)]]

\* cyttsp_exit_bl_mode: the command write, then the poll loop on the
\* bootloader-mode bit; wr is the bus behaviour of the write
cyttsp_exit_bl_mode(wr, ps) ==
    LET w == ttsp_write_block_data(TRUE, Len(bl_command), wr)
    IN  IF w.retval < 0 THEN w.retval ELSE poll_result(ps, ENODEV)

\* cyttsp_set_sysinfo_mode: mode write, then poll until tts_verh/tts_verl
cyttsp_set_sysinfo_mode(wr, ps) ==
    LET w == ttsp_write_block_data(TRUE, 1, wr)
    IN  IF w.retval < 0 THEN w.retval ELSE poll_result(ps, EAGAIN)

\* cyttsp_set_operational_mode: mode write, then poll until act_dist reads
\* CY_ACT_DIST_DFLT
cyttsp_set_operational_mode(wr, ps) ==
    LET w == ttsp_write_block_data(TRUE, 1, wr)
    IN  IF w.retval < 0 THEN w.retval ELSE poll_result(ps, EAGAIN)

\* what the bus and the device can make the three mode functions do: w is
\* the result of the command write, r the value the function returns
ExitBlOutcomes ==
    { [w |-> ttsp_write_block_data(TRUE, Len(bl_command), wr).retval,
       r |-> cyttsp_exit_bl_mode(wr, ps)] : wr \in BusRuns, ps \in PollRuns }
SysinfoOutcomes ==
    { [w |-> ttsp_write_block_data(TRUE, 1, wr).retval,
       r |-> cyttsp_set_sysinfo_mode(wr, ps)] : wr \in BusRuns, ps \in PollRuns }
OperOutcomes ==
    { [w |-> ttsp_write_block_data(TRUE, 1, wr).retval,
       r |-> cyttsp_set_operational_mode(wr, ps)] : wr \in BusRuns, ps \in PollRuns }
\* results of one transport write / read of a non-empty buffer
WriteRets == { ttsp_write_block_data(TRUE, 1, rs).retval : rs \in BusRuns }
ReadRets == { ttsp_read_block_data(TRUE, 1, rs).retval : rs \in BusRuns }

\* variant: only the active interval is compared with its default
intervals_differ_first_only(p) == p.act_intrvl # CY_ACT_INTRVL_DFLT

\* cyttsp_set_sysinfo_regs: whether the interval block is written
intervals_differ(p) ==
    \/ p.act_intrvl # CY_ACT_INTRVL_DFLT
    \/ p.tch_tmout # CY_TCH_TMOUT_DFLT
    \/ p.lp_intrvl # CY_LP_INTRVL_DFLT

(***************************************************************************)
(* Touch frame: struct cyttsp_xydata as its 32 bytes (packed), indexed     *)
(* from 1.  tch1 is at bytes 4..8, touch12_id at 9, tch2 at 10..14,        *)
(* tch3 at 17..21, touch34_id at 22, tch4 at 23..27, act_dist at 31.       *)
(***************************************************************************)
xy_hst_mode(f) == f[1]
xy_tt_mode(f) == f[2]
xy_tt_stat(f) == f[3]
xy_touch12_id(f) == f[9]
xy_touch34_id(f) == f[22]
xy_act_dist(f) == f[31]

\* offset of the contact sub-record idx (0..3) in the frame
cyttsp_get_tch(idx) ==
    CASE idx = 0 -> 4
      [] idx = 1 -> 10
      [] idx = 2 -> 17
      [] idx = 3 -> 23

\* be16_to_cpu taking the bytes in little-endian order
be16_to_cpu_little_endian(hi, lo) == lo * 256 + hi

be16_to_cpu(hi, lo) == hi * 256 + lo

tch_x(f, idx) == be16_to_cpu(f[cyttsp_get_tch(idx)], f[cyttsp_get_tch(idx) + 1])
tch_y(f, idx) == be16_to_cpu(f[cyttsp_get_tch(idx) + 2], f[cyttsp_get_tch(idx) + 3])
tch_z(f, idx) == f[cyttsp_get_tch(idx) + 4]

\* ids[0..3], here indexed 1..4
cyttsp_extract_track_ids(f) ==
    << xy_touch12_id(f) \div 16, xy_touch12_id(f) % 16,
       xy_touch34_id(f) \div 16, xy_touch34_id(f) % 16 >>

\* num_cur_tch after the error checks of cyttsp_handle_tchdata (the
\* power-state and bootloader-mode checks come before and return early)
num_cur_tch_ignores_large_area(f) ==
    IF GET_NUM_TOUCHES(xy_tt_stat(f)) > CY_MAX_FINGER THEN 0
    ELSE IF IS_BAD_PKT(xy_tt_mode(f)) # 0 THEN 0
    ELSE GET_NUM_TOUCHES(xy_tt_stat(f))
num_cur_tch(f) ==
    IF IS_LARGE_AREA(xy_tt_stat(f)) = 1 THEN 0
    ELSE IF GET_NUM_TOUCHES(xy_tt_stat(f)) > CY_MAX_FINGER THEN 0
    ELSE IF IS_BAD_PKT(xy_tt_mode(f)) # 0 THEN 0
    ELSE GET_NUM_TOUCHES(xy_tt_stat(f))

\* cyttsp_report_slot / cyttsp_report_slot_empty / input_sync
ReportSlot(slot, x, y, z) == <<"slot", slot, x, y, z>>
ReportSlotEmpty(slot) == <<"empty", slot>>
InputSync == <<"sync">>

\* first loop: one occupied report per current touch, in contact order
occupied_reports(f) ==
    LET ids == cyttsp_extract_track_ids(f)
    IN  [i \in 1..num_cur_tch(f) |->
            ReportSlot(ids[i], tch_x(f, i - 1), tch_y(f, i - 1), tch_z(f, i - 1))]

\* the bits set in "used" after the first loop
used_mask_first_only(f) ==
    { cyttsp_extract_track_ids(f)[i] :
        i \in 1..(IF num_cur_tch(f) > 0 THEN 1 ELSE 0) }
used_mask(f) ==
    { cyttsp_extract_track_ids(f)[i] : i \in 1..num_cur_tch(f) }

\* variant: second loop that does not consult "used"
empty_reports_ignores_used(used, i) ==
    [j \in 1..(CY_MAX_ID - i) |-> ReportSlotEmpty(i + j - 1)]

\* second loop: one empty report per clear bit, in ascending slot order
RECURSIVE empty_reports(_, _)
empty_reports(used, i) ==
    IF i >= CY_MAX_ID THEN <<>>
    ELSE (IF i \notin used THEN <<ReportSlotEmpty(i)>> ELSE <<>>)
         \o empty_reports(used, i + 1)

\* variant: the frame-complete marker issued ahead of the slot reports
frame_reports_sync_first(f) ==
    <<InputSync>> \o occupied_reports(f) \o empty_reports(used_mask(f), 0)

\* everything cyttsp_handle_tchdata reports for a frame that passed the
\* power-state and bootloader-mode checks
frame_reports(f) ==
    occupied_reports(f) \o empty_reports(used_mask(f), 0) \o <<InputSync>>

\* lines 450-453: the power-state and bootloader-mode checks on a frame
\* read while the session is in state st
cyttsp_handle_tchdata_check_no_idle(st, f) ==
    IF GET_BOOTLOADERMODE(xy_tt_mode(f)) # 0 THEN "recover" ELSE "report"
cyttsp_handle_tchdata_check(st, f) ==
    IF st = CY_IDLE_STATE THEN "discard"
    ELSE IF GET_BOOTLOADERMODE(xy_tt_mode(f)) # 0 THEN "recover"
    ELSE "report"

\* what cyttsp_handle_tchdata reports for a frame read and acknowledged
\* in state st
cyttsp_handle_tchdata(st, f) ==
    IF cyttsp_handle_tchdata_check(st, f) = "report" THEN frame_reports(f)
    ELSE <<>>

\* cyttsp_hndshk: the byte written back
hndshk_cmd_echo(hst_mode) == hst_mode
hndshk_cmd(hst_mode) ==
    IF hst_mode >= CY_HNDSHK_BIT THEN hst_mode - CY_HNDSHK_BIT
    ELSE hst_mode + CY_HNDSHK_BIT

(***************************************************************************)
(* Frames the device presents.  MkFrame lays the fields out in the 32      *)
(* bytes; t is the sequence of the four contact sub-records, each          *)
(* <<x_hi, x_lo, y_hi, y_lo, z>>.                                          *)
(***************************************************************************)
MkFrame(hst, mode, stat, t12, t34, t) ==
    <<hst, mode, stat>> \o t[1] \o <<t12>> \o t[2] \o <<0, 0>> \o t[3]
        \o <<t34>> \o t[4] \o <<0, 0, 0, CY_ACT_DIST_DFLT, 0>>

TchA == <<0, 100, 0, 200, 50>>
TchB == <<1, 144, 0, 10, 5>>
TchC == <<255, 255, 2, 1, 255>>

\* what the device holds in its registers: the fields, and the frame read
Regs(hst, mode, stat, t12, t34, t) ==
    [hst |-> hst, mode |-> mode, stat |-> stat, t12 |-> t12, t34 |-> t34, t |-> t]
FrameOf(d) == MkFrame(d.hst, d.mode, d.stat, d.t12, d.t34, d.t)
NoRegs == Regs(0, 0, 0, 0, 0, <<>>)

\* frames of the mode-controller specification: no touch, two touches
\* (tracks 3 and 9), bootloader-mode bit, system-information host mode,
\* one touch with the handshake bit of the host-mode byte set
SmallFrames ==
    { Regs(0, 0, 0, 0, 0, <<TchA, TchA, TchA, TchA>>),
      Regs(0, 0, 2, 57, 0, <<TchA, TchB, TchC, TchC>>),
      Regs(0, 16, 1, 48, 0, <<TchA, TchB, TchC, TchC>>),
      Regs(16, 0, 0, 0, 0, <<TchA, TchA, TchA, TchA>>),
      Regs(128, 0, 1, 144, 0, <<TchB, TchA, TchA, TchA>>) }

\* frames of the decoder specification
ModeBytes == {0, 16, 32}
StatBytes == {0, 1, 2, 3, 4, 5, 15, 18}
IdBytes == {57, 147, 51, 240, 18}
TchOrders == { <<TchA, TchB, TchC, TchA>>, <<TchB, TchA, TchA, TchC>>,
               <<TchC, TchC, TchB, TchB>> }
AllFrames ==
    { Regs(0, m, st, a, b, t) :
        m \in ModeBytes, st \in StatBytes, a \in IdBytes, b \in IdBytes,
        t \in TchOrders }

(***************************************************************************)
(* State                                                                   *)
(***************************************************************************)
VARIABLES
    power_state,     \* ts->power_state
    pd,              \* ts->platform_data
    irq_registered,  \* cyttsp_irq is installed on ts->irq
    bl_ready,        \* ts->bl_ready.done: complete() calls not yet consumed
    opened,          \* the input core holds the device open
    mpc,             \* main thread: where it is in the running entry point
    mop,             \* main thread: the entry point running or last run
    mret,            \* main thread: value the last entry point returned
    attach,          \* record of the running or just returned cyttsp_power_on
    ever_attached,   \* some cyttsp_power_on completed every step
    ms,              \* record of the running or last cyttsp_suspend/resume
    ipc,             \* irq thread: where it is in cyttsp_irq
    xy_data,         \* irq thread: the frame read by cyttsp_handle_tchdata
    iret,            \* irq thread: value of cyttsp_exit_bl_mode in recovery
    events,          \* reports of the running or last handler invocation
    ilog,            \* bus transfers of the running or last invocation
    ih,              \* record of the running or last handler invocation
    xf,              \* transport specification: the call and its result
    blv,             \* status-check specification: the block and its result
    slots,           \* slot specification: the frames fed and their reports
    pl,              \* poll specification: the device's answers and the result
    kc               \* key-copy specification: the keys and the bytes copied

mainv == <<mpc, mop, mret, opened, attach, ever_attached, ms>>
irqv == <<ipc, xy_data, iret, events, ilog, ih>>
purev == <<xf, blv, slots, pl, kc>>
vars == <<power_state, pd, irq_registered, bl_ready, opened, mpc, mop, mret,
          attach, ever_attached, ms, ipc, xy_data, iret, events, ilog, ih, xf, blv,
          slots, pl, kc>>

(***************************************************************************)
(* Platform data handed over at cyttsp_core_init.  use_sleep is a bool;    *)
(* bl_keys is <<>> for NULL.                                               *)
(***************************************************************************)
CustomKeys == <<16, 17, 18, 19, 20, 21, 22, 23>>
Platform(h, s, w, c) ==
    [use_hndshk |-> h, use_sleep |-> s, wakeup |-> w,
     act_dist |-> CY_ACT_DIST_DFLT,
     act_intrvl |-> IF c THEN 16 ELSE CY_ACT_INTRVL_DFLT,
     tch_tmout |-> CY_TCH_TMOUT_DFLT,
     lp_intrvl |-> IF c THEN 5 ELSE CY_LP_INTRVL_DFLT,
     bl_keys |-> IF c THEN CustomKeys ELSE <<>>]
Platforms ==
    { Platform(h, s, w, c) : h \in BOOLEAN, s \in BOOLEAN, w \in BOOLEAN,
                             c \in BOOLEAN }

\* bootloader status blocks <<bl_file, bl_status>> the device may present
BlBlocks == { <<0, 17>>, <<0, 16>>, <<0, 0>>, <<0, 32>>, <<16, 0>> }

NoAttach ==
    [reset |-> "none", wait |-> "none", blk |-> <<>>, valid |-> "none",
     failed |-> "none", wlog |-> <<>>, state |-> "none"]
NoCall ==
    [entry |-> "none", wake |-> "none", hst |-> -1, log |-> <<>>,
     state |-> "none"]
NoHandler ==
    [entry |-> "none", src |-> NoRegs, check |-> "none", recov |-> "none",
     state |-> "none"]
NoFrame == <<>>
NoXfer == [op |-> "none"]
NoBlv == [op |-> "none", ret |-> 0, bl_file |-> 0, bl_status |-> 0, out |-> 0]
NoSlots == [op |-> "none"]
NoPoll == [op |-> "none"]
NoKeyCopy == [op |-> "none"]

\* the session after cyttsp_core_init (kzalloc: power_state is 0)
InitSession ==
    /\ power_state = CY_IDLE_STATE
    /\ irq_registered = FALSE
    /\ bl_ready = 0
    /\ opened = FALSE
    /\ mpc = "idle" /\ mop = "none" /\ mret = 0
    /\ attach = NoAttach
    /\ ever_attached = FALSE /\ ms = NoCall
    /\ ipc = "idle" /\ xy_data = NoFrame /\ iret = 0
    /\ events = <<>> /\ ilog = <<>> /\ ih = NoHandler

Init ==
    /\ pd \in Platforms
    /\ InitSession
    /\ xf = NoXfer /\ blv = NoBlv /\ slots = NoSlots
    /\ pl = NoPoll /\ kc = NoKeyCopy

(***************************************************************************)
(* Main thread: cyttsp_open -> cyttsp_power_on                             *)
(***************************************************************************)
Wr(reg, data, ret) == <<"W", reg, data, ret>>
Rd(reg, len, ret) == <<"R", reg, len, ret>>
Poll(reg, len, ret) == <<"POLL", reg, len, ret>>
Delay(msecs) == <<"D", msecs>>

\* label bypass: cyttsp_power_on returns retval to cyttsp_open; the input
\* core keeps the device open iff it returned 0
PowerOnReturn(retval, a, st) ==
    /\ mpc' = "idle"
    /\ mret' = retval
    /\ opened' = (retval = 0)
    /\ attach' = [a EXCEPT !.state = st]

\* lines 543-550: power_state = CY_BL_STATE, request_threaded_irq
PO_Start ==
    /\ mpc = "idle" /\ ~opened
    /\ mop' = "open"
    /\ power_state' = CY_BL_STATE
    /\ \E r \in (IF irq_registered THEN {-EBUSY} ELSE {0, -EINVAL}) :
         IF r < 0
         THEN /\ PowerOnReturn(r, [NoAttach EXCEPT !.failed = "request_irq"],
                               CY_BL_STATE)
              /\ UNCHANGED irq_registered
         ELSE /\ irq_registered' = TRUE
              /\ mpc' = "po_reset_init"
              /\ attach' = NoAttach
              /\ UNCHANGED <<mret, opened>>
    /\ ms' = NoCall
    /\ UNCHANGED <<pd, bl_ready, ever_attached>>
    /\ UNCHANGED irqv /\ UNCHANGED purev

\* cyttsp_soft_reset, line 354: INIT_COMPLETION(ts->bl_ready)
PO_ResetInit ==
    /\ mpc = "po_reset_init"
    /\ bl_ready' = 0
    /\ mpc' = "po_reset_write"
    /\ UNCHANGED <<power_state, pd, irq_registered, opened, mop, mret, attach,
                   ever_attached>>
    /\ UNCHANGED ms /\ UNCHANGED irqv /\ UNCHANGED purev

\* cyttsp_soft_reset, lines 356-358: the reset command write.  A negative
\* result is returned to cyttsp_power_on, whose test "retval == 0" it does
\* not meet: the sequence goes on to cyttsp_bl_app_valid.
PO_ResetWrite ==
    /\ mpc = "po_reset_write"
    /\ \E wret \in WriteRets :
         LET w == [retval |-> wret]
             a == [attach EXCEPT
                     !.wlog = @ \o <<Wr(CY_REG_BASE, <<CY_SOFT_RESET_MODE>>, w.retval)>>,
                     !.reset = IF w.retval < 0 THEN "fail" ELSE "ok"]
         IN  /\ attach' = a
             /\ mpc' = IF w.retval < 0 THEN "po_valid" ELSE "po_wait"
    /\ UNCHANGED <<power_state, pd, irq_registered, bl_ready, opened, mop, mret,
                   ever_attached>>
    /\ UNCHANGED ms /\ UNCHANGED irqv /\ UNCHANGED purev

\* cyttsp_soft_reset, line 360: wait_for_completion_timeout returns the
\* jiffies left (at least 1) when complete() was called, 0 on timeout;
\* cyttsp_power_on line 553 takes 0 to bypass and returns it
PO_Wait_timeout_anytime ==
    /\ mpc = "po_wait"
    /\ \/ /\ bl_ready > 0
          /\ bl_ready' = bl_ready - 1
          /\ attach' = [attach EXCEPT !.wait = "signal"]
          /\ mpc' = "po_valid"
          /\ UNCHANGED <<mret, opened>>
       \/ /\ PowerOnReturn(0, [attach EXCEPT !.wait = "timeout",
                                             !.failed = "soft_reset"],
                           power_state)
          /\ UNCHANGED bl_ready
    /\ UNCHANGED <<power_state, pd, irq_registered, mop, ever_attached>>
    /\ UNCHANGED ms /\ UNCHANGED irqv /\ UNCHANGED purev
PO_Wait_no_timeout ==
    /\ mpc = "po_wait"
    /\ bl_ready > 0
    /\ bl_ready' = bl_ready - 1
    /\ attach' = [attach EXCEPT !.wait = "signal"]
    /\ mpc' = "po_valid"
    /\ UNCHANGED <<mret, opened>>
    /\ UNCHANGED <<power_state, pd, irq_registered, mop, ever_attached>>
    /\ UNCHANGED ms /\ UNCHANGED irqv /\ UNCHANGED purev
PO_Wait ==
    /\ mpc = "po_wait"
    /\ \/ /\ bl_ready > 0
          /\ bl_ready' = bl_ready - 1
          /\ attach' = [attach EXCEPT !.wait = "signal"]
          /\ mpc' = "po_valid"
          /\ UNCHANGED <<mret, opened>>
       \/ /\ bl_ready = 0
          /\ PowerOnReturn(0, [attach EXCEPT !.wait = "timeout",
                                             !.failed = "soft_reset"],
                           power_state)
          /\ UNCHANGED bl_ready
    /\ UNCHANGED <<power_state, pd, irq_registered, mop, ever_attached>>
    /\ UNCHANGED ms /\ UNCHANGED irqv /\ UNCHANGED purev

\* cyttsp_bl_app_valid, lines 556-560
PO_BlAppValid ==
    /\ mpc = "po_valid"
    /\ \E rret \in ReadRets, b \in BlBlocks :
         LET r == [retval |-> rret]
             v == cyttsp_bl_app_valid(r.retval, b[1], b[2])
             a == [attach EXCEPT
                     !.wlog = @ \o <<Rd(CY_REG_BASE, SIZEOF_BL_DATA, r.retval)>>,
                     !.blk = IF r.retval < 0 THEN <<>> ELSE b,
                     !.valid = IF v < 0 THEN "fail"
                               ELSE IF v > 0 THEN "skip" ELSE "exit"]
         IN  IF v < 0
             THEN PowerOnReturn(v, [a EXCEPT !.failed = "bl_app_valid"],
                                power_state)
             ELSE /\ attach' = a
                  /\ mpc' = IF v > 0 THEN "po_sysinfo" ELSE "po_exit_bl"
                  /\ UNCHANGED <<mret, opened>>
    /\ UNCHANGED <<power_state, pd, irq_registered, bl_ready, mop, ever_attached>>
    /\ UNCHANGED ms /\ UNCHANGED irqv /\ UNCHANGED purev

\* the transfers of a mode function: its command write and, when the write
\* went through, its poll loop
ModeLog(reg, data, o, len) ==
    IF o.w < 0 THEN <<Wr(reg, data, o.w)>>
    ELSE <<Wr(reg, data, o.w), Poll(reg, len, o.r)>>

\* lines 562-567: cyttsp_exit_bl_mode, then power_state = CY_IDLE_STATE
PO_ExitBl ==
    /\ mpc = "po_exit_bl"
    /\ \E o \in ExitBlOutcomes :
         LET r == o.r
             a == [attach EXCEPT !.wlog = @ \o
                     ModeLog(CY_REG_BASE, exit_bl_cmd(pd.bl_keys), o,
                             SIZEOF_BL_DATA)]
         IN  IF r < 0
             THEN /\ PowerOnReturn(r, [a EXCEPT !.failed = "exit_bl_mode"],
                                   power_state)
                  /\ UNCHANGED power_state
             ELSE /\ power_state' = CY_IDLE_STATE
                  /\ attach' = a
                  /\ mpc' = "po_sysinfo"
                  /\ UNCHANGED <<mret, opened>>
    /\ UNCHANGED <<pd, irq_registered, bl_ready, mop, ever_attached>>
    /\ UNCHANGED ms /\ UNCHANGED irqv /\ UNCHANGED purev

\* no_bl_bypass, lines 570-572: cyttsp_set_sysinfo_mode
PO_SysinfoMode ==
    /\ mpc = "po_sysinfo"
    /\ \E o \in SysinfoOutcomes :
         LET r == o.r
             a == [attach EXCEPT !.wlog = @ \o
                     ModeLog(CY_REG_BASE, <<CY_SYSINFO_MODE>>, o,
                             SIZEOF_SYSINFO)]
         IN  IF r < 0
             THEN PowerOnReturn(r, [a EXCEPT !.failed = "set_sysinfo_mode"],
                                power_state)
             ELSE /\ attach' = a
                  /\ mpc' = "po_regs"
                  /\ UNCHANGED <<mret, opened>>
    /\ UNCHANGED <<power_state, pd, irq_registered, bl_ready, mop, ever_attached>>
    /\ UNCHANGED ms /\ UNCHANGED irqv /\ UNCHANGED purev

\* lines 574-576: cyttsp_set_sysinfo_regs
PO_SysinfoRegs ==
    /\ mpc = "po_regs"
    /\ IF intervals_differ(pd)
       THEN \E wret \in WriteRets :
              LET w == [retval |-> wret]
                  a == [attach EXCEPT !.wlog = @ \o
                          <<Wr(CY_REG_ACT_INTRVL,
                               <<pd.act_intrvl, pd.tch_tmout, pd.lp_intrvl>>,
                               w.retval),
                            Delay(CY_DELAY_DFLT)>>]
              IN  IF w.retval < 0
                  THEN PowerOnReturn(w.retval,
                                     [a EXCEPT !.failed = "set_sysinfo_regs"],
                                     power_state)
                  ELSE /\ attach' = a
                       /\ mpc' = "po_oper"
                       /\ UNCHANGED <<mret, opened>>
       ELSE /\ mpc' = "po_oper"
            /\ UNCHANGED <<mret, opened, attach>>
    /\ UNCHANGED <<power_state, pd, irq_registered, bl_ready, mop, ever_attached>>
    /\ UNCHANGED ms /\ UNCHANGED irqv /\ UNCHANGED purev

\* lines 578-580: cyttsp_set_operational_mode
PO_OperMode ==
    /\ mpc = "po_oper"
    /\ \E o \in OperOutcomes :
         LET r == o.r
             a == [attach EXCEPT !.wlog = @ \o
                     ModeLog(CY_REG_BASE, <<CY_OPERATE_MODE>>, o,
                             SIZEOF_XYDATA)]
         IN  IF r < 0
             THEN PowerOnReturn(r, [a EXCEPT !.failed = "set_operational_mode"],
                                power_state)
             ELSE /\ attach' = a
                  /\ mpc' = "po_act_dist"
                  /\ UNCHANGED <<mret, opened>>
    /\ UNCHANGED <<power_state, pd, irq_registered, bl_ready, mop, ever_attached>>
    /\ UNCHANGED ms /\ UNCHANGED irqv /\ UNCHANGED purev

\* every step of the running attach went through
AllStepsOk(a) == a.reset = "ok" /\ a.wait = "signal" /\ a.failed = "none"

\* variant: PowerState set to Active before the active-distance write
PO_ActDist_active_before_write ==
    /\ mpc = "po_act_dist"
    /\ \E wret \in WriteRets :
         LET w == [retval |-> wret]
             a == [attach EXCEPT !.wlog = @ \o
                     <<Wr(CY_REG_ACT_DIST, <<pd.act_dist>>, w.retval)>>]
         IN  /\ power_state' = CY_ACTIVE_STATE
             /\ IF w.retval < 0
                THEN /\ PowerOnReturn(w.retval,
                                      [a EXCEPT !.failed = "act_dist_setup"],
                                      CY_ACTIVE_STATE)
                     /\ UNCHANGED ever_attached
                ELSE /\ ever_attached' = (ever_attached \/ AllStepsOk(a))
                     /\ PowerOnReturn(0, a, CY_ACTIVE_STATE)
    /\ UNCHANGED <<pd, irq_registered, bl_ready, mop>>
    /\ UNCHANGED ms /\ UNCHANGED irqv /\ UNCHANGED purev

\* lines 583-588: cyttsp_act_dist_setup, then power_state = CY_ACTIVE_STATE
PO_ActDist ==
    /\ mpc = "po_act_dist"
    /\ \E wret \in WriteRets :
         LET w == [retval |-> wret]
             a == [attach EXCEPT !.wlog = @ \o
                     <<Wr(CY_REG_ACT_DIST, <<pd.act_dist>>, w.retval)>>]
         IN  IF w.retval < 0
             THEN /\ PowerOnReturn(w.retval, [a EXCEPT !.failed = "act_dist_setup"],
                                   power_state)
                  /\ UNCHANGED <<power_state, ever_attached>>
             ELSE /\ power_state' = CY_ACTIVE_STATE
                  /\ ever_attached' = (ever_attached \/ AllStepsOk(a))
                  /\ PowerOnReturn(0, a, CY_ACTIVE_STATE)
    /\ UNCHANGED <<pd, irq_registered, bl_ready, mop>>
    /\ UNCHANGED ms /\ UNCHANGED irqv /\ UNCHANGED purev

\* cyttsp_close: free_irq returns once no handler invocation is running
Close ==
    /\ mpc = "idle" /\ opened
    /\ ipc = "idle"
    /\ irq_registered' = FALSE
    /\ opened' = FALSE
    /\ mop' = "close"
    /\ attach' = NoAttach
    /\ ms' = NoCall
    /\ UNCHANGED <<power_state, pd, bl_ready, mpc, mret, ever_attached>>
    /\ UNCHANGED irqv /\ UNCHANGED purev

(***************************************************************************)
(* Main thread: cyttsp_suspend and cyttsp_resume                           *)
(***************************************************************************)
MainReturn(retval) ==
    /\ mpc' = "idle"
    /\ mret' = retval

\* the value of "sleep_mode = ts->platform_data->use_sleep" (bool to u8)
sleep_mode_byte(p) == IF p.use_sleep THEN 1 ELSE 0

\* cyttsp_suspend, lines 633-634: the test
cyttsp_suspend_test_any_config(p, st) == st = CY_ACTIVE_STATE
cyttsp_suspend_test(p, st) == p.use_sleep /\ st = CY_ACTIVE_STATE

Suspend_Begin ==
    /\ mpc = "idle"
    /\ mop' = "suspend"
    /\ ms' = [NoCall EXCEPT !.entry = power_state]
    /\ IF cyttsp_suspend_test(pd, power_state)
       THEN /\ mpc' = "su_write"
            /\ UNCHANGED mret
       ELSE MainReturn(0)
    /\ attach' = NoAttach
    /\ UNCHANGED <<power_state, pd, irq_registered, bl_ready, opened,
                   ever_attached>>
    /\ UNCHANGED irqv /\ UNCHANGED purev

\* cyttsp_suspend, lines 635-639: the write, then power_state
Suspend_Write ==
    /\ mpc = "su_write"
    /\ \E wret \in WriteRets :
         LET w == [retval |-> wret]
         IN  /\ power_state' = IF w.retval >= 0 THEN CY_SLEEP_STATE
                               ELSE power_state
             /\ ms' = [ms EXCEPT
                         !.log = <<Wr(CY_REG_BASE, <<sleep_mode_byte(pd)>>,
                                      w.retval)>>,
                         !.state = IF w.retval >= 0 THEN CY_SLEEP_STATE
                                   ELSE "none"]
             /\ MainReturn(w.retval)
    /\ UNCHANGED <<pd, irq_registered, bl_ready, opened, mop, attach,
                   ever_attached>>
    /\ UNCHANGED irqv /\ UNCHANGED purev

\* cyttsp_resume, lines 608-611: the wake trigger, wk being what the
\* platform's wakeup() returns when there is one
cyttsp_resume_wakeup_assumes_ok(p, wk) == IF p.wakeup THEN wk ELSE 0
cyttsp_resume_wakeup(p, wk) == IF p.wakeup THEN wk ELSE -ENOSYS

\* cyttsp_resume, lines 605-611: the test and the wake trigger
Resume_Begin ==
    /\ mpc = "idle"
    /\ mop' = "resume"
    /\ IF pd.use_sleep /\ power_state # CY_ACTIVE_STATE
       THEN \E wk \in {0, -EIO} :
              LET r == cyttsp_resume_wakeup(pd, wk)
              IN  /\ ms' = [NoCall EXCEPT
                              !.entry = power_state,
                              !.wake = IF ~pd.wakeup THEN "absent"
                                       ELSE IF wk >= 0 THEN "ok" ELSE "fail"]
                  /\ IF r >= 0
                     THEN /\ mpc' = "re_read"
                          /\ UNCHANGED mret
                     ELSE MainReturn(r)
       ELSE /\ ms' = [NoCall EXCEPT !.entry = power_state]
            /\ MainReturn(0)
    /\ attach' = NoAttach
    /\ UNCHANGED <<power_state, pd, irq_registered, bl_ready, opened,
                   ever_attached>>
    /\ UNCHANGED irqv /\ UNCHANGED purev

\* cyttsp_resume, lines 614-619: the frame read, then power_state
Resume_Read(F) ==
    /\ mpc = "re_read"
    /\ \E rret \in ReadRets, f \in F :
         LET r == [retval |-> rret]
             up == r.retval >= 0 /\ GET_HSTMODE(xy_hst_mode(FrameOf(f))) = 0
         IN  /\ power_state' = IF up THEN CY_ACTIVE_STATE ELSE power_state
             /\ ms' = [ms EXCEPT
                         !.log = <<Rd(CY_REG_BASE, SIZEOF_XYDATA, r.retval)>>,
                         !.hst = IF r.retval >= 0 THEN f.hst ELSE -1,
                         !.state = IF up THEN CY_ACTIVE_STATE ELSE "none"]
             /\ MainReturn(r.retval)
    /\ UNCHANGED <<pd, irq_registered, bl_ready, opened, mop, attach,
                   ever_attached>>
    /\ UNCHANGED irqv /\ UNCHANGED purev

(***************************************************************************)
(* Irq thread: cyttsp_irq (threaded, IRQF_ONESHOT: one invocation at a     *)
(* time)                                                                   *)
(***************************************************************************)
\* variant: the handler completes bl_ready in every state but Active
Irq_Enter_signals_unless_active ==
    /\ irq_registered
    /\ ipc = "idle"
    /\ IF power_state # CY_ACTIVE_STATE
       THEN /\ bl_ready < MaxDone
            /\ bl_ready' = bl_ready + 1
            /\ UNCHANGED irqv
       ELSE /\ ipc' = "read"
            /\ xy_data' = NoFrame
            /\ iret' = 0
            /\ events' = <<>>
            /\ ilog' = <<>>
            /\ ih' = [NoHandler EXCEPT !.entry = power_state]
            /\ UNCHANGED bl_ready
    /\ UNCHANGED <<power_state, pd, irq_registered>>
    /\ UNCHANGED mainv /\ UNCHANGED purev

\* lines 513-514: in CY_BL_STATE the handler only completes bl_ready;
\* otherwise it goes on to cyttsp_handle_tchdata
Irq_Enter ==
    /\ irq_registered
    /\ ipc = "idle"
    /\ IF power_state = CY_BL_STATE
       THEN /\ bl_ready < MaxDone
            /\ bl_ready' = bl_ready + 1
            /\ UNCHANGED irqv
       ELSE /\ ipc' = "read"
            /\ xy_data' = NoFrame
            /\ iret' = 0
            /\ events' = <<>>
            /\ ilog' = <<>>
            /\ ih' = [NoHandler EXCEPT !.entry = power_state]
            /\ UNCHANGED bl_ready
    /\ UNCHANGED <<power_state, pd, irq_registered>>
    /\ UNCHANGED mainv /\ UNCHANGED purev

\* variant: the result of the frame read is not tested
Irq_ReadFrame_ignores_failure(F) ==
    /\ ipc = "read"
    /\ \E rret \in ReadRets, d \in F :
         /\ xy_data' = FrameOf(d)
         /\ ih' = [ih EXCEPT !.src = d]
         /\ ilog' = <<Rd(CY_REG_BASE, SIZEOF_XYDATA, rret)>>
         /\ ipc' = "check"
    /\ UNCHANGED <<power_state, pd, irq_registered, bl_ready, iret, events>>
    /\ UNCHANGED mainv /\ UNCHANGED purev

\* cyttsp_handle_tchdata, lines 437-444: the frame read and the handshake
Irq_ReadFrame(F) ==
    /\ ipc = "read"
    /\ \E rret \in ReadRets, hret \in WriteRets, d \in F :
         LET f == FrameOf(d)
             rl == <<Rd(CY_REG_BASE, SIZEOF_XYDATA, rret)>>
             hl == <<Wr(CY_REG_BASE, <<hndshk_cmd(xy_hst_mode(f))>>, hret)>>
         IN  IF rret # 0
             THEN /\ ilog' = rl
                  /\ ipc' = "idle"
                  /\ UNCHANGED <<xy_data, ih>>
             ELSE /\ xy_data' = f
                  /\ ih' = [ih EXCEPT !.src = d]
                  /\ IF pd.use_hndshk
                     THEN /\ ilog' = rl \o hl
                          /\ ipc' = IF hret # 0 THEN "idle" ELSE "check"
                     ELSE /\ ilog' = rl
                          /\ ipc' = "check"
    /\ UNCHANGED <<power_state, pd, irq_registered, bl_ready, iret, events>>
    /\ UNCHANGED mainv /\ UNCHANGED purev

\* cyttsp_handle_tchdata, lines 447-488: the checks and the reports
Irq_Process ==
    /\ ipc = "check"
    /\ ih' = [ih EXCEPT !.check = power_state]
    /\ events' = cyttsp_handle_tchdata(power_state, xy_data)
    /\ ipc' = IF cyttsp_handle_tchdata_check(power_state, xy_data) = "recover"
              THEN "recover" ELSE "idle"
    /\ UNCHANGED <<power_state, pd, irq_registered, bl_ready, xy_data, iret, ilog>>
    /\ UNCHANGED mainv /\ UNCHANGED purev

\* variant: recovery that also issues the soft reset before the exit command
Irq_ExitBl_with_soft_reset ==
    /\ ipc = "recover"
    /\ \E o \in ExitBlOutcomes, sret \in WriteRets :
         LET r == o.r
         IN  /\ iret' = r
             /\ ih' = [ih EXCEPT !.recov = IF r # 0 THEN "fail" ELSE "ok"]
             /\ ilog' = ilog \o <<Wr(CY_REG_BASE, <<CY_SOFT_RESET_MODE>>, sret)>>
                             \o ModeLog(CY_REG_BASE, exit_bl_cmd(pd.bl_keys), o,
                                        SIZEOF_BL_DATA)
    /\ ipc' = "set"
    /\ UNCHANGED <<power_state, pd, irq_registered, bl_ready, xy_data, events>>
    /\ UNCHANGED mainv /\ UNCHANGED purev

\* cyttsp_irq, line 524: cyttsp_exit_bl_mode
Irq_ExitBl ==
    /\ ipc = "recover"
    /\ \E o \in ExitBlOutcomes :
         LET r == o.r
         IN  /\ iret' = r
             /\ ih' = [ih EXCEPT !.recov = IF r # 0 THEN "fail" ELSE "ok"]
             /\ ilog' = ilog \o ModeLog(CY_REG_BASE, exit_bl_cmd(pd.bl_keys), o,
                                        SIZEOF_BL_DATA)
    /\ ipc' = "set"
    /\ UNCHANGED <<power_state, pd, irq_registered, bl_ready, xy_data, events>>
    /\ UNCHANGED mainv /\ UNCHANGED purev

\* cyttsp_irq, lines 525-528: the resulting power state
Irq_SetState ==
    /\ ipc = "set"
    /\ power_state' = IF iret # 0 THEN CY_IDLE_STATE ELSE CY_ACTIVE_STATE
    /\ ih' = [ih EXCEPT !.state = power_state']
    /\ ipc' = "idle"
    /\ UNCHANGED <<pd, irq_registered, bl_ready, xy_data, iret, events, ilog>>
    /\ UNCHANGED mainv /\ UNCHANGED purev

(***************************************************************************)
(* The driver: both threads                                                *)
(***************************************************************************)
Next ==
    \/ PO_Start
    \/ PO_ResetInit
    \/ PO_ResetWrite
    \/ PO_Wait
    \/ PO_BlAppValid
    \/ PO_ExitBl
    \/ PO_SysinfoMode
    \/ PO_SysinfoRegs
    \/ PO_OperMode
    \/ PO_ActDist
    \/ Close
    \/ Suspend_Begin
    \/ Suspend_Write
    \/ Resume_Begin
    \/ Resume_Read(SmallFrames)
    \/ Irq_Enter
    \/ Irq_ReadFrame(SmallFrames)
    \/ Irq_Process
    \/ Irq_ExitBl
    \/ Irq_SetState

Spec == Init /\ [][Next]_vars

(***************************************************************************)
(* Specification of attach for termination: cyttsp_open and cyttsp_close   *)
(* on the main thread, interrupts delivered or not.  The main thread is a  *)
(* running thread: once inside cyttsp_power_on each of its steps is taken  *)
(* (a transport call ends after at most CY_NUM_RETRY attempts, a poll loop *)
(* after its budget, the wait by its timeout).  Nothing is assumed of the  *)
(* caller (it need not call) nor of the device (it need not interrupt).    *)
(***************************************************************************)
AttachInit ==
    /\ pd \in { Platform(h, FALSE, FALSE, c) : h \in BOOLEAN, c \in BOOLEAN }
    /\ InitSession
    /\ xf = NoXfer /\ blv = NoBlv /\ slots = NoSlots
    /\ pl = NoPoll /\ kc = NoKeyCopy

AttachNext ==
    \/ PO_Start
    \/ PO_ResetInit
    \/ PO_ResetWrite
    \/ PO_Wait
    \/ PO_BlAppValid
    \/ PO_ExitBl
    \/ PO_SysinfoMode
    \/ PO_SysinfoRegs
    \/ PO_OperMode
    \/ PO_ActDist
    \/ Close
    \/ Irq_Enter
    \/ Irq_ReadFrame(SmallFrames)
    \/ Irq_Process
    \/ Irq_ExitBl
    \/ Irq_SetState

AttachFair ==
    /\ WF_vars(PO_ResetInit)
    /\ WF_vars(PO_ResetWrite)
    /\ WF_vars(PO_Wait)
    /\ WF_vars(PO_BlAppValid)
    /\ WF_vars(PO_ExitBl)
    /\ WF_vars(PO_SysinfoMode)
    /\ WF_vars(PO_SysinfoRegs)
    /\ WF_vars(PO_OperMode)
    /\ WF_vars(PO_ActDist)

SpecAttachLive == AttachInit /\ [][AttachNext]_vars /\ AttachFair

(***************************************************************************)
(* Specification of the transport alone: one call of                       *)
(* ttsp_read_block_data or ttsp_write_block_data per behaviour, on every   *)
(* argument shape and every bus behaviour of MaxBusCalls results.          *)
(***************************************************************************)
XferCalls ==
    { [op |-> "call", kind |-> k, bufok |-> b, length |-> n, rs |-> rs] :
        k \in {"read", "write"}, b \in BOOLEAN, n \in {0, 1, SIZEOF_XYDATA},
        rs \in [1..MaxBusCalls -> BusResults] }

XferInit ==
    /\ pd = Platform(FALSE, FALSE, FALSE, FALSE)
    /\ InitSession
    /\ xf \in XferCalls
    /\ blv = NoBlv /\ slots = NoSlots
    /\ pl = NoPoll /\ kc = NoKeyCopy

Xfer_Read ==
    /\ xf.op = "call" /\ xf.kind = "read"
    /\ xf' = [op |-> "done", kind |-> xf.kind, bufok |-> xf.bufok,
              length |-> xf.length, rs |-> xf.rs,
              out |-> ttsp_read_block_data(xf.bufok, xf.length, xf.rs)]
    /\ UNCHANGED <<power_state, pd, irq_registered, bl_ready, blv, slots, pl, kc>>
    /\ UNCHANGED mainv /\ UNCHANGED irqv

Xfer_Write ==
    /\ xf.op = "call" /\ xf.kind = "write"
    /\ xf' = [op |-> "done", kind |-> xf.kind, bufok |-> xf.bufok,
              length |-> xf.length, rs |-> xf.rs,
              out |-> ttsp_write_block_data(xf.bufok, xf.length, xf.rs)]
    /\ UNCHANGED <<power_state, pd, irq_registered, bl_ready, blv, slots, pl, kc>>
    /\ UNCHANGED mainv /\ UNCHANGED irqv

XferNext == Xfer_Read \/ Xfer_Write

SpecXfer == XferInit /\ [][XferNext]_vars

(***************************************************************************)
(* Specification of the bootloader status check alone: cyttsp_bl_app_valid *)
(* on every value of bl_file and bl_status, the read failing or not.       *)
(***************************************************************************)
BlvInit ==
    /\ pd = Platform(FALSE, FALSE, FALSE, FALSE)
    /\ InitSession
    /\ xf = NoXfer /\ slots = NoSlots
    /\ pl = NoPoll /\ kc = NoKeyCopy
    /\ blv \in { [op |-> "call", ret |-> r, bl_file |-> f, bl_status |-> st,
                  out |-> 0] : r \in BusResults, f \in Byte, st \in Byte }

Blv_Check ==
    /\ blv.op = "call"
    /\ blv' = [blv EXCEPT
                 !.op = "done",
                 !.out = cyttsp_bl_app_valid(blv.ret, blv.bl_file, blv.bl_status)]
    /\ UNCHANGED <<power_state, pd, irq_registered, bl_ready, xf, slots, pl, kc>>
    /\ UNCHANGED mainv /\ UNCHANGED irqv

BlvNext == Blv_Check

SpecBlv == BlvInit /\ [][BlvNext]_vars

(***************************************************************************)
(* Specification of the frame decoder: the interrupt handler on a session  *)
(* that was attached (and on which a suspend without sleep mode returned), *)
(* the device presenting every frame of AllFrames.                         *)
(***************************************************************************)
FrameInit ==
    /\ pd \in { Platform(h, FALSE, FALSE, FALSE) : h \in BOOLEAN }
    /\ power_state = CY_ACTIVE_STATE
    /\ irq_registered = TRUE
    /\ bl_ready = 0
    /\ opened = TRUE
    /\ mpc = "idle" /\ mop = "suspend" /\ mret = 0
    /\ attach = NoAttach
    /\ ever_attached = TRUE /\ ms = NoCall
    /\ ipc = "idle" /\ xy_data = NoFrame /\ iret = 0
    /\ events = <<>> /\ ilog = <<>> /\ ih = NoHandler
    /\ xf = NoXfer /\ blv = NoBlv /\ slots = NoSlots
    /\ pl = NoPoll /\ kc = NoKeyCopy

FrameNext ==
    \/ Irq_Enter
    \/ Irq_ReadFrame(AllFrames)
    \/ Irq_Process
    \/ Irq_ExitBl
    \/ Irq_SetState

SpecFrame == FrameInit /\ [][FrameNext]_vars

(***************************************************************************)
(* Specification of the slot reports over consecutive frames: the frame    *)
(* part of cyttsp_handle_tchdata applied to two frames in a row on a       *)
(* session that was attached, the device presenting every pair of          *)
(* well-formed frames of AllFrames.                                        *)
(***************************************************************************)
WellFormed(d) ==
    /\ d.mode = 0 /\ d.stat <= CY_MAX_FINGER
    /\ LET ids == cyttsp_extract_track_ids(FrameOf(d))
       IN  \A i, j \in 1..d.stat : i # j => ids[i] # ids[j]
SlotFrames == { d \in AllFrames : WellFormed(d) }

SlotsInit ==
    /\ pd = Platform(FALSE, FALSE, FALSE, FALSE)
    /\ power_state = CY_ACTIVE_STATE
    /\ irq_registered = TRUE
    /\ bl_ready = 0
    /\ opened = TRUE
    /\ mpc = "idle" /\ mop = "open" /\ mret = 0
    /\ attach = NoAttach
    /\ ever_attached = TRUE /\ ms = NoCall
    /\ ipc = "idle" /\ xy_data = NoFrame /\ iret = 0
    /\ events = <<>> /\ ilog = <<>> /\ ih = NoHandler
    /\ xf = NoXfer /\ blv = NoBlv
    /\ pl = NoPoll /\ kc = NoKeyCopy
    /\ slots \in { [op |-> "feed", frames |-> <<d1, d2>>, out |-> <<>>,
                    fresh |-> <<>>] :
                  d1 \in SlotFrames, d2 \in SlotFrames }

\* variant: a handler that remembers which slots it reported empty and
\* does not report them empty again
Slots_Frame_skips_known_empty ==
    /\ slots.op = "feed" /\ Len(slots.out) < Len(slots.frames)
    /\ LET f == FrameOf(slots.frames[Len(slots.out) + 1])
           prev == IF slots.out = <<>> THEN <<>> ELSE slots.out[Len(slots.out)]
           Known(e) == e[1] = "empty" /\ \E i \in 1..Len(prev) : prev[i] = e
           Fresh(e) == ~Known(e)
       IN  slots' = [slots EXCEPT
                    !.out = Append(@, SelectSeq(cyttsp_handle_tchdata(power_state, f),
                                                Fresh))]
    /\ UNCHANGED <<power_state, pd, irq_registered, bl_ready, xf, blv, pl, kc>>
    /\ UNCHANGED mainv /\ UNCHANGED irqv

Slots_Frame ==
    /\ slots.op = "feed" /\ Len(slots.out) < Len(slots.frames)
    /\ LET f == FrameOf(slots.frames[Len(slots.out) + 1])
       IN  slots' = [slots EXCEPT
                    !.out = Append(@, cyttsp_handle_tchdata(power_state, f))]
    /\ UNCHANGED <<power_state, pd, irq_registered, bl_ready, xf, blv, pl, kc>>
    /\ UNCHANGED mainv /\ UNCHANGED irqv

\* the second frame as the first frame of another session in the same
\* PowerState: what cyttsp_handle_tchdata reports there
Slots_Fresh ==
    /\ slots.op = "feed" /\ slots.fresh = <<>>
    /\ LET f == FrameOf(slots.frames[Len(slots.frames)])
       IN  slots' = [slots EXCEPT
                    !.fresh = <<cyttsp_handle_tchdata(power_state, f)>>]
    /\ UNCHANGED <<power_state, pd, irq_registered, bl_ready, xf, blv, pl, kc>>
    /\ UNCHANGED mainv /\ UNCHANGED irqv

SlotsNext ==
    \/ Slots_Frame
    \/ Slots_Fresh

SpecSlots == SlotsInit /\ [][SlotsNext]_vars

(***************************************************************************)
(* Specification of the poll loops alone: each of the three mode functions *)
(* after a command write that went through, the device showing the awaited *)
(* condition from poll n+1 on, for every n up to one past the budget.      *)
(***************************************************************************)
PollFns == {"exit_bl_mode", "set_sysinfo_mode", "set_operational_mode"}

\* one pass through the body of the do-while of fn, p being what the
\* status read returns: cyttsp_exit_bl_mode and cyttsp_set_sysinfo_mode
\* sleep CY_DELAY_DFLT and read, cyttsp_set_operational_mode only reads
poll_body(fn, p) ==
    CASE fn = "exit_bl_mode" ->
           <<Delay(CY_DELAY_DFLT), Rd(CY_REG_BASE, SIZEOF_BL_DATA, p.ret)>>
      [] fn = "set_sysinfo_mode" ->
           <<Delay(CY_DELAY_DFLT), Rd(CY_REG_BASE, SIZEOF_SYSINFO, p.ret)>>
      [] OTHER ->
           <<Rd(CY_REG_BASE, SIZEOF_XYDATA, p.ret)>>

\* the delays and reads of the first k passes
RECURSIVE poll_trace(_, _, _)
poll_trace(fn, ps, k) ==
    IF k = 0 THEN <<>>
    ELSE poll_trace(fn, ps, k - 1) \o poll_body(fn, ps[k])

PollInit ==
    /\ pd = Platform(FALSE, FALSE, FALSE, FALSE)
    /\ InitSession
    /\ xf = NoXfer /\ blv = NoBlv /\ slots = NoSlots /\ kc = NoKeyCopy
    /\ pl \in { [op |-> "call", fn |-> f, n |-> n, busfail |-> b,
                 ret |-> 0, polls |-> 0, trace |-> <<>>] :
                 f \in PollFns, n \in 0..(CY_DELAY_MAX + 1), b \in BOOLEAN }

\* the mode function pl.fn on the answers PollRun(pl.n, pl.busfail): the
\* value it returns and the number of polls its loop made
Poll_Call ==
    /\ pl.op = "call"
    /\ LET ps == PollRun(pl.n, pl.busfail)
           wr == BusRun(0)
           r == CASE pl.fn = "exit_bl_mode" -> cyttsp_exit_bl_mode(wr, ps)
                  [] pl.fn = "set_sysinfo_mode" -> cyttsp_set_sysinfo_mode(wr, ps)
                  [] OTHER -> cyttsp_set_operational_mode(wr, ps)
           n == poll_loop(ps, 0, 0).polls
       IN  pl' = [pl EXCEPT !.op = "done", !.ret = r, !.polls = n,
                            !.trace = poll_trace(pl.fn, ps, n)]
    /\ UNCHANGED <<power_state, pd, irq_registered, bl_ready, xf, blv, slots, kc>>
    /\ UNCHANGED mainv /\ UNCHANGED irqv

PollNext == Poll_Call

SpecPoll == PollInit /\ [][PollNext]_vars

(***************************************************************************)
(* Specification of the key copy of cyttsp_exit_bl_mode alone.  The caller *)
(* hands over an array of CY_NUM_BL_KEYS bytes (or none); beyond is what   *)
(* lies behind that array in the caller's memory, which the driver does    *)
(* not control.                                                            *)
(***************************************************************************)
\* memcpy(dst + off, src, n): n bytes are read from the start of src and
\* written at offsets off..off+n-1 from the start of dst; dst and src are
\* the memory from the first byte of each object on
memcpy(dst, off, src, n) ==
    [i \in 1..(IF off + n > Len(dst) THEN off + n ELSE Len(dst)) |->
        IF i > off /\ i <= off + n THEN src[i - off] ELSE dst[i]]

\* lines 244-247: bl_cmd after the two copies, with the offsets the second
\* copy reads from the keys (rd) and writes in bl_cmd (wr)
cyttsp_exit_bl_copy(keys, beyond) ==
    LET n == Len(bl_command)
        off == Len(bl_command) - CY_NUM_BL_KEYS
    IN  IF keys = <<>>
        THEN [rd |-> {}, wr |-> {}, mem |-> bl_command]
        ELSE [rd |-> 0..(n - 1), wr |-> off..(off + n - 1),
              mem |-> memcpy(bl_command, off, keys \o beyond, n)]

KeyArrays ==
    {<<>>} \cup { [i \in 1..CY_NUM_BL_KEYS |-> (a + b * (i - 1)) % 256] :
                    a \in {0, 16, 200}, b \in {0, 1, 17} }
BeyondBytes == { <<x, y, z>> : x \in {0, 255}, y \in {0, 90}, z \in {0, 1, 165} }

KeysInit ==
    /\ pd = Platform(FALSE, FALSE, FALSE, FALSE)
    /\ InitSession
    /\ xf = NoXfer /\ blv = NoBlv /\ slots = NoSlots /\ pl = NoPoll
    /\ kc \in { [op |-> "call", keys |-> k, beyond |-> y,
                 rd |-> {}, wr |-> {}, mem |-> <<>>] :
                 k \in KeyArrays, y \in BeyondBytes }

Keys_Copy ==
    /\ kc.op = "call"
    /\ LET c == cyttsp_exit_bl_copy(kc.keys, kc.beyond)
       IN  kc' = [kc EXCEPT !.op = "done", !.rd = c.rd, !.wr = c.wr,
                            !.mem = c.mem]
    /\ UNCHANGED <<power_state, pd, irq_registered, bl_ready, xf, blv, slots, pl>>
    /\ UNCHANGED mainv /\ UNCHANGED irqv

KeysNext == Keys_Copy

SpecKeys == KeysInit /\ [][KeysNext]_vars

(***************************************************************************)
(* Specification of the interval step alone: cyttsp_power_on about to call *)
(* cyttsp_set_sysinfo_regs, on either path, for every combination of the   *)
(* three configured intervals; attach.wlog holds the transfers from this   *)
(* step on.                                                                *)
(***************************************************************************)
RegsPlatforms ==
    { [Platform(FALSE, FALSE, FALSE, FALSE) EXCEPT
         !.act_intrvl = a, !.tch_tmout = t, !.lp_intrvl = l] :
       a \in {CY_ACT_INTRVL_DFLT, 16, 255},
       t \in {CY_TCH_TMOUT_DFLT, 0, 100},
       l \in {CY_LP_INTRVL_DFLT, 0, 5} }

RegsInit ==
    /\ pd \in RegsPlatforms
    /\ irq_registered = TRUE
    /\ bl_ready = 0
    /\ opened = FALSE
    /\ mpc = "po_regs" /\ mop = "open" /\ mret = 0
    /\ \E v \in {"skip", "exit"} :
         /\ power_state = (IF v = "skip" THEN CY_BL_STATE ELSE CY_IDLE_STATE)
         /\ attach = [NoAttach EXCEPT !.reset = "ok", !.wait = "signal",
                                      !.valid = v]
    /\ ever_attached = FALSE /\ ms = NoCall
    /\ ipc = "idle" /\ xy_data = NoFrame /\ iret = 0
    /\ events = <<>> /\ ilog = <<>> /\ ih = NoHandler
    /\ xf = NoXfer /\ blv = NoBlv /\ slots = NoSlots
    /\ pl = NoPoll /\ kc = NoKeyCopy

RegsNext == PO_SysinfoRegs

SpecRegs == RegsInit /\ [][RegsNext]_vars

(***************************************************************************)
(* Properties                                                              *)
(***************************************************************************)
BitSet(x, n) == (x \div (2 ^ n)) % 2 = 1

\* cyttsp_power_on has returned and nothing was called since
AttachReturned == mop = "open" /\ mpc = "idle"

\* the steps of the mode sequence that can fail
AttachSteps ==
    {"soft_reset", "bl_app_valid", "exit_bl_mode", "set_sysinfo_mode",
     "set_sysinfo_regs", "set_operational_mode", "act_dist_setup"}

\* C1: PowerState is Active only if some attach has completed every step
\* successfully; no operation sets Active without that.
C1_ActiveOnlyAfterFullAttach ==
    power_state = CY_ACTIVE_STATE => ever_attached

\* C2: whenever attach returns because one of its steps failed, PowerState
\* is Idle on return.
C2_FailedAttachLeavesIdle ==
    (AttachReturned /\ attach.failed \in AttachSteps)
        => attach.state = CY_IDLE_STATE

\* C3: when the bootloader-ready wait after the soft-reset write times out,
\* attach aborts and returns a failure (a non-zero result) to its caller.
C3_ResetTimeoutReportsFailure ==
    (AttachReturned /\ attach.wait = "timeout")
        => (attach.failed = "soft_reset" /\ mret # 0)

\* C4: when the status read shows the bootloader-mode bit clear, the
\* host-mode nibble operational and no operational-error bit, attach writes
\* no exit-bootloader command, its next transfer after the status read is
\* the system-information mode-select write, and with every later step
\* succeeding it returns success with PowerState Active.
IsExitBlWrite(e) == e[1] = "W" /\ Len(e[3]) = Len(bl_command)
AppRunning(a) ==
    /\ a.blk # <<>>
    /\ ~BitSet(a.blk[2], 4)
    /\ ~BitSet(a.blk[1], 4) /\ ~BitSet(a.blk[1], 5) /\ ~BitSet(a.blk[1], 6)
    /\ \A n \in 0..5 : ~BitSet(a.blk[2], n)
C4_RunningAppSkipsExitBl ==
    AppRunning(attach) =>
        /\ \A i \in 1..Len(attach.wlog) : ~IsExitBlWrite(attach.wlog[i])
        /\ attach.wlog[2][1] = "R"
        /\ Len(attach.wlog) >= 3 =>
             /\ attach.wlog[3][1] = "W"
             /\ attach.wlog[3][2] = 0
             /\ attach.wlog[3][3] = <<16>>
        /\ mpc # "po_exit_bl"
        /\ (AttachReturned /\ attach.failed = "none") =>
             (attach.state = CY_ACTIVE_STATE /\ mret = 0)
C4_Witness ==
    /\ AttachReturned /\ AppRunning(attach) /\ attach.failed = "none"
    /\ attach.state = CY_ACTIVE_STATE
    /\ Len(attach.wlog) >= 5

\* C5: for an interrupt taken while PowerState is Active whose frame read
\* shows the bootloader-mode bit, the handler reports no event and runs
\* exit-bootloader recovery, leaving PowerState Active when the recovery
\* succeeded and Idle when it failed.
BlFrameHandled ==
    /\ ipc = "idle" /\ ih.entry = CY_ACTIVE_STATE
    /\ xy_data # NoFrame /\ BitSet(xy_tt_mode(xy_data), 4)
RecoveryRan ==
    /\ events = <<>>
    /\ ih.recov \in {"ok", "fail"}
    /\ ih.recov = "ok" => ih.state = CY_ACTIVE_STATE
    /\ ih.recov = "fail" => ih.state = CY_IDLE_STATE
C5_BlFrameRecovers_Original ==
    BlFrameHandled => RecoveryRan

\* C5 (amended): the same, for a frame whose handshake write, when one is
\* configured, succeeded.
HandshakeOk == ~pd.use_hndshk \/ (Len(ilog) >= 2 /\ ilog[2][4] = 0)
C5_BlFrameRecovers ==
    (BlFrameHandled /\ HandshakeOk) => RecoveryRan
C5_Witness ==
    /\ BlFrameHandled /\ pd.use_hndshk /\ HandshakeOk
    /\ ih.recov = "fail" /\ ih.state = CY_IDLE_STATE /\ events = <<>>

\* C6: with k < 4 transient bus failures before a success, the transport
\* read and write return success after exactly k+1 bus calls and exactly k
\* delays.
FailsThenOk(rs, k) == (\A i \in 1..k : rs[i] < 0) /\ rs[k + 1] = 0
XferDone == xf.op = "done" /\ xf.bufok /\ xf.length > 0
C6_SucceedsAfterKFailures ==
    XferDone =>
        \A k \in 0..3 :
            FailsThenOk(xf.rs, k) =>
                xf.out = [retval |-> 0, calls |-> k + 1, delays |-> k]
C6_Witness ==
    /\ XferDone /\ xf.kind = "read" /\ FailsThenOk(xf.rs, 3)
    /\ xf.out = [retval |-> 0, calls |-> 4, delays |-> 3]

\* C7: when the bus fails on 4 or more consecutive attempts, the transport
\* read and write return a negative result after exactly 4 bus calls.
C7_FailsAfterFourCalls ==
    (XferDone /\ \A i \in 1..4 : xf.rs[i] < 0)
        => (xf.out.retval < 0 /\ xf.out.calls = 4)
C7_Witness ==
    /\ XferDone /\ xf.kind = "write" /\ \A i \in 1..Len(xf.rs) : xf.rs[i] < 0
    /\ xf.out.retval = -5 /\ xf.out.calls = 4

\* C8: a transport read or write with length zero or a null buffer returns
\* the invalid-argument error with no bus call and no delay.
C8_BadArgumentsFailAtOnce ==
    (xf.op = "done" /\ (~xf.bufok \/ xf.length = 0))
        => xf.out = [retval |-> -22, calls |-> 0, delays |-> 0]
C8_Witness ==
    /\ xf.op = "done" /\ xf.kind = "read" /\ ~xf.bufok /\ xf.length > 0
    /\ xf.rs[1] = 0
    /\ xf.out = [retval |-> -22, calls |-> 0, delays |-> 0]

\* C9: cyttsp_bl_app_valid follows the decision table: read failed ->
\* device-not-ready; bootloader bit and app-valid bit set -> 0 (exit
\* bootloader); bootloader bit set, app-valid clear -> device-not-ready;
\* bootloader bit clear, host mode operational, no operational-error bit ->
\* 1 (skip exit-bootloader); anything else -> device-not-ready.
C9_Table(ret, file, status) ==
    IF ret < 0 THEN -19
    ELSE IF BitSet(status, 4) /\ BitSet(status, 0) THEN 0
    ELSE IF BitSet(status, 4) THEN -19
    ELSE IF /\ ~BitSet(file, 4) /\ ~BitSet(file, 5) /\ ~BitSet(file, 6)
            /\ \A n \in 0..5 : ~BitSet(status, n)
         THEN 1
    ELSE -19
C9_DecisionTable ==
    blv.op = "done" => blv.out = C9_Table(blv.ret, blv.bl_file, blv.bl_status)
C9_Witness ==
    /\ blv.op = "done" /\ blv.ret = 0
    /\ blv.bl_file = 128 /\ blv.bl_status = 192 /\ blv.out = 1

\* C10: a valid frame processed in Active state (no bootloader, large-area
\* or bad-packet bit, N <= 4 contacts, distinct track IDs) yields exactly N
\* occupied reports, the i-th being (i-th track ID, x, y, z) of the i-th
\* contact sub-record with x and y big-endian and the IDs taken from the
\* high and low nibble of touch12, then of touch34; then 16-N empty reports
\* for the other slots; then one frame-complete marker.
C10_Id(d, i) ==
    CASE i = 1 -> d.t12 \div 16
      [] i = 2 -> d.t12 % 16
      [] i = 3 -> d.t34 \div 16
      [] i = 4 -> d.t34 % 16
C10_N(d) == d.stat % 16
C10_ValidFrame(d) ==
    /\ ~BitSet(d.mode, 4) /\ ~BitSet(d.mode, 5) /\ ~BitSet(d.stat, 4)
    /\ C10_N(d) <= 4
    /\ \A i, j \in 1..C10_N(d) : i # j => C10_Id(d, i) # C10_Id(d, j)
C10_Processed ==
    ipc = "idle" /\ ih.check = CY_ACTIVE_STATE /\ C10_ValidFrame(ih.src)
C10_ValidFrameDecodes ==
    C10_Processed =>
        LET d == ih.src
            n == C10_N(d)
        IN  /\ Len(events) = 17
            /\ \A i \in 1..n :
                 events[i] = <<"slot", C10_Id(d, i),
                               d.t[i][1] * 256 + d.t[i][2],
                               d.t[i][3] * 256 + d.t[i][4], d.t[i][5]>>
            /\ { events[i] : i \in (n + 1)..16 } =
                 { <<"empty", sl>> :
                     sl \in (0..15) \ { C10_Id(d, i) : i \in 1..n } }
            /\ events[17] = <<"sync">>
C10_Witness ==
    /\ C10_Processed
    /\ ih.src.t12 = 57 /\ C10_N(ih.src) = 2
    /\ events[1] = <<"slot", 3, 100, 200, 50>>
    /\ events[2] = <<"slot", 9, 400, 10, 5>>
    /\ Len(events) = 17

\* C11: a frame examined in a non-Idle state, without the bootloader-mode
\* bit, that has the large-area bit set, or a contact count of 5..15, or the
\* bad-packet bit set, yields no occupied report, the 16 empty reports and
\* one frame-complete marker whatever its contact sub-records hold, and the
\* handler leaves PowerState as it was.
C11_Degraded(d) ==
    /\ ~BitSet(d.mode, 4)
    /\ BitSet(d.stat, 4) \/ d.stat % 16 > 4 \/ BitSet(d.mode, 5)
C11_Examined ==
    ipc = "idle" /\ ih.check \notin {"none", CY_IDLE_STATE}
C11_DegradedFrameClearsAll ==
    (C11_Examined /\ C11_Degraded(ih.src)) =>
        /\ Len(events) = 17
        /\ \A i \in 1..16 : events[i] = <<"empty", i - 1>>
        /\ events[17] = <<"sync">>
        /\ ih.recov = "none" /\ ih.state = "none"
        /\ power_state = ih.check
C11_Witness ==
    /\ C11_Examined /\ ih.src.stat = 18 /\ ih.src.mode = 0
    /\ ih.src.t = <<TchC, TchC, TchB, TchB>>
    /\ Len(events) = 17 /\ events[4] = <<"empty", 3>>
    /\ power_state = CY_ACTIVE_STATE

\* C12: two valid frames in a row that carry the same set S of track IDs
\* produce no empty report for any ID of S, in either frame, and the first
\* frame after attach produces empty reports for exactly the IDs of 0..15
\* outside S.
C12_Ids(d) == { C10_Id(d, i) : i \in 1..C10_N(d) }
C12_Empties(ev) == { ev[i][2] : i \in { j \in 1..Len(ev) : ev[j][1] = "empty" } }
C12_SameSetNoEmpty ==
    (slots.op = "feed" /\ Len(slots.out) >= 1) =>
        /\ C12_Empties(slots.out[1]) = (0..15) \ C12_Ids(slots.frames[1])
        /\ (Len(slots.out) = 2 /\ C12_Ids(slots.frames[1]) = C12_Ids(slots.frames[2])) =>
             /\ C12_Empties(slots.out[1]) \cap C12_Ids(slots.frames[1]) = {}
             /\ C12_Empties(slots.out[2]) \cap C12_Ids(slots.frames[1]) = {}
C12_Witness ==
    /\ slots.op = "feed" /\ Len(slots.out) = 2
    /\ slots.frames[1].t12 = 57 /\ slots.frames[2].t12 = 147
    /\ slots.frames[1].stat = 2 /\ slots.frames[2].stat = 2
    /\ C12_Ids(slots.frames[1]) = {3, 9} /\ C12_Ids(slots.frames[2]) = {3, 9}
    /\ C12_Empties(slots.out[2]) = (0..15) \ {3, 9}
    /\ slots.out[2][1][2] = 9

\* C13: when the handler examines a frame while PowerState is Idle, the
\* frame is discarded whatever it holds: the invocation ends with no
\* occupied, empty or frame-complete report, runs no recovery, and
\* PowerState stays Idle.
C13_IdleCheckStep == ipc = "check" /\ ipc' # ipc /\ power_state = CY_IDLE_STATE
C13_IdleDiscardsFrame ==
    [][C13_IdleCheckStep =>
         /\ ipc' = "idle"
         /\ events = <<>> /\ events' = <<>>
         /\ power_state' = CY_IDLE_STATE
         /\ ih'.recov = "none" /\ ih'.state = "none"]_vars
C13_Witness ==
    /\ ipc = "idle" /\ ih.entry = CY_IDLE_STATE /\ ih.check = CY_IDLE_STATE
    /\ BitSet(ih.src.mode, 4) /\ xy_data = FrameOf(ih.src)
    /\ events = <<>> /\ power_state = CY_IDLE_STATE

\* C14: with the handshake flag configured, every frame read successfully
\* is followed at once by a write of (host-mode byte XOR 0x80) to the base
\* register, before any check of the frame and before any report; when
\* that write fails the invocation ends with no report and PowerState
\* untouched.  With the flag not configured, frame processing writes
\* nothing (the only write of an invocation is then the exit-bootloader
\* command of a recovery).
C14_FrameRead == ipc # "read" /\ xy_data # NoFrame
C14_Xor80(b) == (b + 128) % 256
C14_Writes(log) == { i \in 1..Len(log) : log[i][1] = "W" }
C14_HandshakeFollowsRead ==
    C14_FrameRead =>
        /\ ilog[1] = <<"R", 0, 32, 0>>
        /\ pd.use_hndshk =>
             /\ Len(ilog) >= 2
             /\ ilog[2][1] = "W" /\ ilog[2][2] = 0
             /\ ilog[2][3] = <<C14_Xor80(xy_data[1])>>
             /\ ilog[2][4] # 0 =>
                  /\ ipc = "idle" /\ events = <<>> /\ Len(ilog) = 2
                  /\ ih.check = "none" /\ ih.recov = "none" /\ ih.state = "none"
        /\ ~pd.use_hndshk =>
             /\ ih.recov = "none" => C14_Writes(ilog) = {}
             /\ \A i \in C14_Writes(ilog) : Len(ilog[i][3]) = Len(bl_command)
C14_Witness ==
    /\ C14_FrameRead /\ pd.use_hndshk /\ ipc = "idle"
    /\ xy_data[1] = 128 /\ ilog[2] = <<"W", 0, <<0>>, 0>>
    /\ events = <<<<"slot", 9, 400, 10, 5>>>> \o
                [i \in 1..16 |-> IF i <= 9 THEN <<"empty", i - 1>>
                                 ELSE IF i <= 15 THEN <<"empty", i>>
                                 ELSE <<"sync">>]

\* C15: cyttsp_suspend writes to the bus only when sleep mode is configured
\* and PowerState is Active; it sets PowerState to Sleep exactly when that
\* write succeeded; when the write fails it leaves PowerState alone and
\* returns the error; in every other case it does no bus transfer, leaves
\* PowerState alone and returns 0.
C15_Returned == mop = "suspend" /\ mpc = "idle"
C15_SuspendEffect ==
    C15_Returned =>
        IF pd.use_sleep /\ ms.entry = CY_ACTIVE_STATE
        THEN /\ Len(ms.log) = 1
             /\ ms.log[1][1] = "W" /\ ms.log[1][2] = 0
             /\ mret = ms.log[1][4]
             /\ ms.log[1][4] >= 0 => ms.state = CY_SLEEP_STATE
             /\ ms.log[1][4] < 0 => ms.state = "none"
        ELSE ms.log = <<>> /\ ms.state = "none" /\ mret = 0
C15_Witness ==
    /\ C15_Returned /\ pd.use_sleep /\ ms.entry = CY_ACTIVE_STATE
    /\ ms.log[1][4] = 0 /\ ms.state = CY_SLEEP_STATE /\ mret = 0
    /\ power_state = CY_SLEEP_STATE

\* C16: cyttsp_resume sets PowerState to nothing but Active, and only when
\* sleep mode is configured, PowerState was not Active, the wake trigger
\* succeeded, the frame read succeeded and the host-mode nibble read is
\* operational; with sleep mode not configured or PowerState already
\* Active it calls no wake trigger, does no bus transfer and returns 0.
C16_Returned == mop = "resume" /\ mpc = "idle"
C16_HostNibble(b) == (b \div 16) % 8
C16_ResumeEffect ==
    C16_Returned =>
        /\ ms.state \in {"none", CY_ACTIVE_STATE}
        /\ ms.state = CY_ACTIVE_STATE =>
             /\ pd.use_sleep /\ ms.entry # CY_ACTIVE_STATE
             /\ ms.wake = "ok"
             /\ ms.log = <<<<"R", 0, 32, 0>>>>
             /\ ms.hst >= 0 /\ C16_HostNibble(ms.hst) = 0
        /\ (~pd.use_sleep \/ ms.entry = CY_ACTIVE_STATE) =>
             ms.wake = "none" /\ ms.log = <<>> /\ ms.state = "none" /\ mret = 0
C16_Witness ==
    /\ C16_Returned /\ ms.entry = CY_SLEEP_STATE /\ ms.state = CY_ACTIVE_STATE
    /\ ms.hst = 128 /\ mret = 0 /\ power_state = CY_ACTIVE_STATE

\* C17: cyttsp_resume with sleep mode configured, PowerState not Active and
\* no wake trigger configured returns the not-supported error, does no bus
\* read and leaves PowerState alone; so it does (error returned, no read,
\* PowerState left alone) when the wake trigger itself fails.
C17_NoWakeNoRead ==
    (C16_Returned /\ pd.use_sleep /\ ms.entry # CY_ACTIVE_STATE) =>
        /\ ~pd.wakeup => (ms.wake = "absent" /\ mret = -38)
        /\ ms.wake \in {"absent", "fail"} =>
             mret < 0 /\ ms.log = <<>> /\ ms.state = "none"
C17_Witness ==
    /\ C16_Returned /\ pd.use_sleep /\ ~pd.wakeup
    /\ ms.entry = CY_SLEEP_STATE /\ ms.wake = "absent" /\ mret = -38
    /\ power_state = CY_SLEEP_STATE

\* C18: PowerState is never written by two paths at once: while an
\* invocation of the interrupt handler is in flight (frame processing or
\* recovery) no entry point of the main thread tests or assigns PowerState,
\* and when a recovery assigns its result PowerState still is what the
\* invocation saw when it examined the frame.
C18_HandlerInFlight == ipc # "idle"
C18_MainTouchesState ==
    \/ mpc = "idle" /\ mop' \in {"suspend", "resume"} /\ (mop' # mop \/ ms' # ms)
    \/ ipc' = ipc /\ power_state' # power_state
C18_SerializedWithHandler ==
    [][/\ C18_HandlerInFlight => ~C18_MainTouchesState
       /\ (ipc = "set" /\ ipc' = "idle") => power_state = ih.check]_vars

\* C19: the wait that follows the soft-reset write is resolved by exactly
\* one of the bootloader-ready signal and the timeout: it reports ready
\* only by consuming a signal that was delivered, it reports timed out only
\* when no signal is pending, the resolution of a running attach is never
\* revised, and a signal delivered after the timeout changes nothing of
\* what that attach returned.
C19_ResolvedBySignal == attach.wait = "none" /\ attach'.wait = "signal"
C19_ResolvedByTimeout == attach.wait = "none" /\ attach'.wait = "timeout"
C19_WaitResolvedOnce ==
    [][/\ C19_ResolvedBySignal =>
            /\ mpc = "po_wait" /\ mpc' = "po_valid"
            /\ bl_ready > 0 /\ bl_ready' = bl_ready - 1
            /\ attach'.failed = "none"
       /\ C19_ResolvedByTimeout =>
            /\ mpc = "po_wait" /\ mpc' = "idle"
            /\ bl_ready = 0 /\ bl_ready' = 0
            /\ attach'.failed = "soft_reset" /\ mret' = 0
       /\ (attach.wait # "none" /\ mpc # "idle") => attach'.wait = attach.wait
       /\ (attach.wait # "none" /\ ipc' # ipc) =>
            attach' = attach /\ mret' = mret /\ mpc' = mpc
       /\ (attach.wait = "timeout" /\ bl_ready' > bl_ready) =>
            attach' = attach /\ mret' = mret /\ mpc' = mpc]_vars
C19_Witness ==
    /\ AttachReturned /\ attach.wait = "timeout" /\ bl_ready > 0
    /\ attach.failed = "soft_reset" /\ mret = 0

\* C20: attach always terminates: whatever the bus returns and whether or
\* not an interrupt is ever delivered, a cyttsp_power_on that was entered
\* returns to its caller.
C20_AttachRunning == mop = "open" /\ mpc # "idle"
C20_AttachTerminates == C20_AttachRunning ~> AttachReturned
C20_Witness ==
    /\ AttachReturned /\ attach.reset = "ok" /\ attach.wait = "signal"
    /\ attach.failed = "set_operational_mode" /\ mret = -11
    /\ attach.wlog[Len(attach.wlog)] = <<"POLL", 0, 32, -11>>

\* C21: occupied, empty and frame-complete reports are made only while
\* PowerState is Active: an invocation of the handler that finds PowerState
\* Idle, Sleep, LowPower or Bootloader reports nothing.
C21_ReportsOnlyWhenActive ==
    events # <<>> => (ih.entry = CY_ACTIVE_STATE /\ ih.check = CY_ACTIVE_STATE)

\* C22: after an attach that failed at one of its steps the session can be
\* retried: a cyttsp_power_on entered again with no close in between runs
\* the sequence again from the soft reset, and reaches Active when its
\* steps go through.
C22_FailedAtStep ==
    AttachReturned /\ ~opened /\ mret < 0 /\ attach.failed \in AttachSteps
C22_Reinvoked == mop' = "open" /\ attach' # attach
C22_RetryRunsSequence ==
    [][(C22_FailedAtStep /\ C22_Reinvoked) =>
          /\ mpc' = "po_reset_init"
          /\ attach' = NoAttach]_vars

\* C23: recovery from the bootloader runs the bootloader exit alone: after
\* the frame read (and its handshake) the handler's bus traffic is exactly
\* one write of the 11-byte exit command, followed only by reads of the
\* bootloader status block; no soft-reset, mode-select, interval or
\* active-distance write is issued.
C23_RecoveryTraffic ==
    LET n == IF pd.use_hndshk THEN 2 ELSE 1
    IN  SubSeq(ilog, n + 1, Len(ilog))
C23_IsExitBlWrite(e) ==
    /\ e[1] = "W" /\ e[2] = CY_REG_BASE
    /\ Len(e[3]) = 11
    /\ SubSeq(e[3], 1, 3) = <<0, 255, 165>>
C23_IsBlStatusRead(e) ==
    e[1] = "POLL" /\ e[2] = CY_REG_BASE /\ e[3] = SIZEOF_BL_DATA
C23_RecoveryOnlyExitsBl ==
    ih.recov # "none" =>
        LET t == C23_RecoveryTraffic
        IN  /\ Len(t) \in {1, 2}
            /\ C23_IsExitBlWrite(t[1])
            /\ \A i \in 2..Len(t) : C23_IsBlStatusRead(t[i])
C23_Witness ==
    /\ ih.recov = "ok" /\ ipc = "idle" /\ power_state = CY_ACTIVE_STATE
    /\ Len(C23_RecoveryTraffic) = 2

\* C24: when the soft-reset command write fails on all its attempts, attach
\* aborts at once with that error: the write is its only bus transfer, the
\* bootloader block is never read, and the write's error is what it returns.
C24_ResetWriteFailureAborts ==
    attach.reset = "fail" =>
        /\ Len(attach.wlog) = 1
        /\ attach.blk = <<>>
        /\ attach.valid = "none"
        /\ (AttachReturned => mret = attach.wlog[1][4])

\* C25: PowerState is always one of Idle, Active, Sleep and Bootloader; it
\* is never Invalid or LowPower, and a fresh session starts in Idle.
C25_PowerStateRange ==
    /\ power_state \in {"IDLE", "ACTIVE", "SLEEP", "BOOTLOADER"}
    /\ power_state \notin {CY_INVALID_STATE, CY_LOW_PWR_STATE}
    /\ (mop = "none" => power_state = "IDLE")
C25_Witness ==
    /\ ms.entry = CY_ACTIVE_STATE /\ ms.state = CY_SLEEP_STATE
    /\ power_state = CY_SLEEP_STATE /\ mop = "suspend" /\ mpc = "idle"

\* C26: each poll loop of the mode sequence makes at most 25 polls before
\* it gives up.
C26_AtMostBudgetPolls ==
    pl.op = "done" => pl.polls <= 25

\* C27: a mode function whose command write went through returns success
\* exactly when its loop stopped on a poll that read well and showed the
\* awaited condition, and a failure exactly when no poll showed it; a poll
\* that shows the condition is never reported as a timeout.
C27_LastPollObserved ==
    LET p == PollRun(pl.n, pl.busfail)[pl.polls]
    IN  p.ret = 0 /\ p.cond
C27_SuccessIffObserved ==
    pl.op = "done" =>
        /\ (pl.ret = 0) <=> C27_LastPollObserved
        /\ (pl.ret < 0) <=> ~C27_LastPollObserved

\* C28: the exit command is 11 bytes, 0x00 0xFF 0xA5 and 8 key bytes, 0..7
\* by default; with caller keys the copy reads exactly 8 bytes of keys and
\* writes only offsets 3..10 of the command buffer, never past its 11
\* bytes, and the first three bytes stay as they were.
C28_KeyCopyInBounds ==
    kc.op = "done" =>
        /\ Len(kc.mem) = 11
        /\ SubSeq(kc.mem, 1, 3) = <<0, 255, 165>>
        /\ (kc.keys = <<>> => kc.mem = <<0, 255, 165, 0, 1, 2, 3, 4, 5, 6, 7>>)
        /\ (kc.keys # <<>> =>
              /\ kc.rd = 0..7
              /\ kc.wr = 3..10
              /\ SubSeq(kc.mem, 4, 11) = kc.keys)
        /\ kc.wr \subseteq 0..10

\* C29: the byte cyttsp_suspend writes to the base register is a sleep
\* power-mode select value, deep sleep 0x02 or low power 0x04, and never
\* the soft-reset command byte 0x01.
C29_SuspendByteIsSleepMode ==
    (mop = "suspend" /\ mpc = "idle" /\ ms.log # <<>>) =>
        /\ ms.log[1][3][1] \in {CY_DEEP_SLEEP_MODE, CY_LOW_POWER_MODE}
        /\ ms.log[1][3][1] # CY_SOFT_RESET_MODE

\* C30: in every attach that ends with PowerState Active, PowerState goes
\* Bootloader, then Idle, then Active: the step of cyttsp_power_on that
\* sets Active finds PowerState Idle, whether the bootloader was exited or
\* the application was already running.
C30_AttachSetsActive ==
    /\ mpc = "po_act_dist" /\ mpc' = "idle"
    /\ mret' = 0 /\ power_state' = CY_ACTIVE_STATE
C31_IsWrite(e) == e[1] = "W"
C31_Writes == SelectSeq(attach.wlog, C31_IsWrite)
C31_RegData(e) == <<e[2], e[3]>>
C31_Expected ==
    <<  <<0, <<1>>>>  >>
    \o (IF attach.valid = "exit"
        THEN << <<0, <<0, 255, 165>> \o (IF pd.bl_keys = <<>>
                                          THEN <<0, 1, 2, 3, 4, 5, 6, 7>>
                                          ELSE pd.bl_keys)>> >>
        ELSE <<>>)
    \o <<  <<0, <<16>>>>  >>
    \o (IF intervals_differ(pd)
        THEN << <<29, <<pd.act_intrvl, pd.tch_tmout, pd.lp_intrvl>>>> >>
        ELSE <<>>)
    \o <<  <<0, <<0>>>>, <<30, <<pd.act_dist>>>>  >>
C31_EndedActive == AttachReturned /\ attach.state = CY_ACTIVE_STATE
C31_WriteOrder ==
    /\ C31_EndedActive =>
         /\ mret = 0
         /\ [i \in 1..Len(C31_Writes) |-> C31_RegData(C31_Writes[i])] = C31_Expected
         /\ attach.wlog[Len(attach.wlog)] = Wr(30, <<pd.act_dist>>, 0)
    /\ (AttachReturned /\ attach.failed = "act_dist_setup") =>
         /\ attach.state # CY_ACTIVE_STATE
         /\ attach.wlog[Len(attach.wlog)][2] = 30
         /\ attach.wlog[Len(attach.wlog)][4] < 0
         /\ mret = attach.wlog[Len(attach.wlog)][4]
C31_Witness ==
    /\ C31_EndedActive /\ Len(C31_Writes) = 6
    /\ attach.reset = "ok" /\ attach.wait = "signal"
    /\ power_state = CY_ACTIVE_STATE

\* C32: the interval step writes to the bus iff at least one of the
\* configured active interval, touch timeout and low-power interval differs
\* from its default (0x00, 0xFF, 0x0A).  When it writes, it is one 3-byte
\* block at register 0x1D, in that order, followed by one fixed delay; when
\* all three are the defaults there is no transfer and the step succeeds;
\* a failed write makes the attach fail with the write's error.
C32_Differs == pd.act_intrvl # 0 \/ pd.tch_tmout # 255 \/ pd.lp_intrvl # 10
C32_StepDone == mpc # "po_regs"
C32_IntervalStep ==
    C32_StepDone =>
        IF C32_Differs
        THEN /\ Len(attach.wlog) = 2
             /\ attach.wlog[1][1] = "W" /\ attach.wlog[1][2] = 29
             /\ attach.wlog[1][3] = <<pd.act_intrvl, pd.tch_tmout, pd.lp_intrvl>>
             /\ attach.wlog[2] = <<"D", 20>>
             /\ IF attach.wlog[1][4] < 0
                THEN /\ mpc = "idle" /\ mret = attach.wlog[1][4] /\ ~opened
                     /\ attach.failed = "set_sysinfo_regs"
                ELSE mpc = "po_oper" /\ attach.failed = "none"
        ELSE /\ attach.wlog = <<>>
             /\ mpc = "po_oper" /\ attach.failed = "none"
C32_Witness ==
    /\ C32_StepDone /\ mpc = "po_oper"
    /\ pd.act_intrvl = 0 /\ pd.tch_tmout = 255 /\ pd.lp_intrvl = 5
    /\ attach.wlog = <<Wr(29, <<0, 255, 5>>, 0), Delay(20)>>

\* C33: for every frame that is reported, the events are: the occupied
\* updates, in contact order, then the empty updates, in ascending slot
\* order, then exactly one frame-complete marker as the last event; the
\* slot updates before the marker cover all 16 slots.
C33_Occupied == { i \in 1..Len(events) : events[i][1] = "slot" }
C33_Empty == { i \in 1..Len(events) : events[i][1] = "empty" }
C33_Sync == { i \in 1..Len(events) : events[i][1] = "sync" }
C33_Id(d, i) ==
    CASE i = 1 -> d.t12 \div 16
      [] i = 2 -> d.t12 % 16
      [] i = 3 -> d.t34 \div 16
      [] OTHER -> d.t34 % 16
C33_EventOrder ==
    events # <<>> =>
        LET k == Cardinality(C33_Occupied)
            n == Len(events)
        IN  /\ C33_Occupied = 1..k
            /\ C33_Empty = (k + 1)..(n - 1)
            /\ C33_Sync = {n}
            /\ \A i \in 1..k :
                 events[i] = <<"slot", C33_Id(ih.src, i),
                               ih.src.t[i][1] * 256 + ih.src.t[i][2],
                               ih.src.t[i][3] * 256 + ih.src.t[i][4],
                               ih.src.t[i][5]>>
            /\ \A i, j \in C33_Empty : i < j => events[i][2] < events[j][2]
            /\ { events[i][2] : i \in 1..(n - 1) } = 0..15
C33_Witness ==
    /\ Len(events) = 17
    /\ Cardinality(C33_Occupied) = 3 /\ Cardinality(C33_Empty) = 13
    /\ events[1][2] = 9 /\ events[2][2] = 3 /\ events[3][2] = 15
    /\ events[17] = <<"sync">>

\* C34: for every frame that is reported, duplicates among its first N
\* track IDs included, a slot in 0..15 gets an empty update iff it is not
\* one of the first N track IDs; no slot gets both an occupied and an empty
\* update; every slot index reported is within 0..15.
C34_OccupiedSlots == { events[i][2] : i \in C33_Occupied }
C34_EmptySlots == { events[i][2] : i \in C33_Empty }
C34_FirstIds ==
    { C33_Id(ih.src, i) : i \in 1..Cardinality(C33_Occupied) }
C34_SlotPartition ==
    events # <<>> =>
        /\ \A sl \in 0..15 : (sl \in C34_EmptySlots) <=> (sl \notin C34_FirstIds)
        /\ C34_OccupiedSlots \cap C34_EmptySlots = {}
        /\ C34_OccupiedSlots \cup C34_EmptySlots \subseteq 0..15
        /\ \A i, j \in C33_Empty : events[i][2] = events[j][2] => i = j
C34_Witness ==
    /\ events # <<>>
    /\ Cardinality(C33_Occupied) = 4
    /\ events[1][2] = 3 /\ events[2][2] = 3 /\ events[3][2] = 3 /\ events[4][2] = 3
    /\ C34_EmptySlots = (0..15) \ {3}

\* C35: an interrupt taken while PowerState is Bootloader only signals
\* bootloader-ready: the handler does no bus transfer, reports no event and
\* leaves PowerState alone.  An interrupt taken in any other PowerState is
\* a touch-frame pull, and no step of it signals bootloader-ready.
C35_Signalled == bl_ready' > bl_ready
C35_PullStarted == ipc = "idle" /\ ipc' # "idle"
C35_HandlerStep == ipc # "idle" /\ (ipc' # ipc \/ ih' # ih \/ ilog' # ilog)
C35_BootloaderIrqOnlySignals ==
    [][/\ C35_Signalled =>
            /\ power_state = CY_BL_STATE /\ ipc = "idle"
            /\ UNCHANGED <<power_state, ipc, ilog, events, ih, xy_data, iret>>
       /\ C35_PullStarted =>
            /\ power_state # CY_BL_STATE
            /\ ipc' = "read" /\ ih'.entry = power_state
            /\ bl_ready' = bl_ready
       /\ C35_HandlerStep => bl_ready' <= bl_ready]_vars
C35_Witness ==
    /\ power_state = CY_BL_STATE /\ bl_ready = 1 /\ mpc = "po_wait"
    /\ ipc = "idle" /\ ih = NoHandler /\ events = <<>> /\ ilog = <<>>

\* C36: in each of the three poll loops a fixed 20 ms delay separates every
\* two consecutive polls, also when the read went through and does not yet
\* show the awaited condition; no loop issues two status reads back to back.
C36_Reads == { i \in 1..Len(pl.trace) : pl.trace[i][1] = "R" }
C36_DelayBetweenPolls ==
    pl.op = "done" =>
        /\ Cardinality(C36_Reads) = pl.polls
        /\ \A i \in C36_Reads : (i + 1) \notin C36_Reads
        /\ \A i, j \in C36_Reads :
             i < j => \E k \in (i + 1)..(j - 1) : pl.trace[k] = <<"D", 20>>

\* C37: once cyttsp_suspend has set PowerState to Sleep, PowerState goes
\* from Sleep to Active only through cyttsp_resume: no step of the
\* interrupt handler takes it from Sleep to Active.
C37_SleepToActive ==
    power_state = CY_SLEEP_STATE /\ power_state' = CY_ACTIVE_STATE
C37_WakeOnlyByResume ==
    [][C37_SleepToActive => (mop = "resume" /\ ipc' = ipc /\ ih' = ih)]_vars

\* C38: the soft-reset step reports bootloader-ready only on an interrupt
\* delivered after the reset command was written: an interrupt delivered in
\* Bootloader state before the write has completed never satisfies the
\* wait, so no signal is pending when the wait begins.
C38_WaitBegins == mpc # "po_wait" /\ mpc' = "po_wait"
C38_StaleSignalIgnored ==
    [][C38_WaitBegins => bl_ready' = 0]_vars

\* C39: when the frame read fails after the transport's attempts, the
\* invocation of the handler ends there: it reports no event, writes no
\* handshake byte, starts no recovery and leaves PowerState as it is.
C39_ReadFailed(log) == log # <<>> /\ log[1][1] = "R" /\ log[1][4] # 0
C39_ReadStep == ipc = "read" /\ ipc' # "read"
C39_FailedReadEndsInvocation ==
    [][/\ (C39_ReadStep /\ C39_ReadFailed(ilog')) =>
            /\ ipc' = "idle"
            /\ power_state' = power_state
       /\ C39_ReadFailed(ilog') =>
            /\ ipc' = "idle"
            /\ Len(ilog') = 1
            /\ events' = <<>>
            /\ ih'.check = "none" /\ ih'.recov = "none" /\ ih'.state = "none"]_vars
C39_Witness ==
    /\ ipc = "idle" /\ pd.use_hndshk
    /\ ilog = <<Rd(0, 32, -EIO)>>
    /\ ih.entry = CY_ACTIVE_STATE /\ power_state = CY_ACTIVE_STATE
    /\ events = <<>>

\* C40: what the handler reports for a frame depends on that frame, the
\* PowerState and the configuration only: a session that processed another
\* frame before and a session that did not report the same events, in the
\* same order, for the same frame in the same PowerState.
C40_BothProcessed ==
    slots.op = "feed" /\ Len(slots.out) = 2 /\ slots.fresh # <<>>
====
